---- MODULE Spec2Model ----
(***************************************************************************)
(* Model of hashmap.h (src/hashmap.in.h): a separate-chaining hash table   *)
(* whose bucket array and chain nodes live on an explicit heap.            *)
(*                                                                         *)
(* The modelled specialization is the default one (HASH_CALLBACK and       *)
(* COMPARISON_CALLBACK are NULL) with a one-byte key type, on a target     *)
(* whose size_t and object pointers are 16 bits wide and whose unsigned    *)
(* long is 32 bits wide.  A 32-bit hash is kept as a pair <<hi, lo>> of    *)
(* 16-bit halves.                                                          *)
(***************************************************************************)
EXTENDS Integers, Sequences, FiniteSets, TLC

(***************************************************************************)
(* Bounds of the model                                                     *)
(***************************************************************************)
\* largest capacity from which a growth is requested
MaxCapacity == 8

\* the count at which test_iterate_break_after_x_iter stops the iteration
\* (50 in the test, scaled to the tables of the model)
TEST_ITERATIONS_BREAK == 2

(***************************************************************************)
(* Program constants                                                       *)
(***************************************************************************)
NULL == 0
HASHMAP_DEFAULT_CAPACITY == 8
\* (size_t)-1 for a 16-bit size_t
SIZE_MAX == 65535
\* sizeof(size_t)
SIZEOF_SIZE_T == 2
\* sizeof(struct HashmapListNode *)
SIZEOF_NODE_PTR == 2
\* number of significand bits of a float
FLT_MANT_DIG == 24

\* the function pointers the iteration_callback field can hold (code
\* addresses): hashmap_grow_internal and a callback of the caller
GROW_INTERNAL == 1001
USER_CALLBACK == 1002
BREAK_CALLBACK == 1003

\* hashmap_grow_internal as compiled with NDEBUG defined
GROW_INTERNAL_NDEBUG == 1004

(***************************************************************************)
(* Bit operations on naturals                                              *)
(***************************************************************************)
RECURSIVE Pow2(_)
Pow2(n) == IF n = 0 THEN 1 ELSE 2 * Pow2(n - 1)

RECURSIVE BitOr(_, _)
BitOr(a, b) ==
    IF a = 0 THEN b
    ELSE IF b = 0 THEN a
    ELSE (IF a % 2 = 1 \/ b % 2 = 1 THEN 1 ELSE 0)
         + 2 * BitOr(a \div 2, b \div 2)

RECURSIVE BitAnd(_, _)
BitAnd(a, b) ==
    IF a = 0 \/ b = 0 THEN 0
    ELSE (IF a % 2 = 1 /\ b % 2 = 1 THEN 1 ELSE 0)
         + 2 * BitAnd(a \div 2, b \div 2)

RECURSIVE BitXor(_, _)
BitXor(a, b) ==
    IF a = 0 THEN b
    ELSE IF b = 0 THEN a
    ELSE (IF a % 2 = b % 2 THEN 0 ELSE 1)
         + 2 * BitXor(a \div 2, b \div 2)

ShiftRight(a, n) == a \div Pow2(n)

\* x - 1 in size_t arithmetic (0 - 1 wraps to SIZE_MAX)
SizeDec(x) == (x + SIZE_MAX) % (SIZE_MAX + 1)

\* x + 1 in size_t arithmetic (SIZE_MAX + 1 wraps to 0)
SizeInc(x) == (x + 1) % (SIZE_MAX + 1)

(***************************************************************************)
(* Conversion of a size_t to float: round to FLT_MANT_DIG significant      *)
(* bits, ties to even.                                                     *)
(***************************************************************************)
RECURSIVE BitLength(_)
BitLength(n) == IF n = 0 THEN 0 ELSE 1 + BitLength(n \div 2)

ToFloat(n) ==
    IF BitLength(n) <= FLT_MANT_DIG THEN n
    ELSE LET ulp == Pow2(BitLength(n) - FLT_MANT_DIG)
             q == n \div ulp
             r == n % ulp
         IN  IF 2 * r > ulp \/ (2 * r = ulp /\ q % 2 = 1)
             THEN (q + 1) * ulp
             ELSE q * ulp

\* faulty variant of AboveLoadFactor: >= in place of >
AboveLoadFactor_AtThreshold(buckets_filled, capacity) ==
    capacity /= 0 /\ 4 * ToFloat(buckets_filled) >= 3 * ToFloat(capacity)

\* faulty variant of AboveLoadFactor: a load factor of 0.875
AboveLoadFactor_SevenEighths(buckets_filled, capacity) ==
    capacity /= 0 /\ 8 * ToFloat(buckets_filled) > 7 * ToFloat(capacity)

\* (float)buckets_filled / (float)capacity > HASHMAP_LOAD_FACTOR, with
\* HASHMAP_LOAD_FACTOR = 0.75f = 3/4; the quotient of the two floats is exact
\* for the capacities of the model, so the comparison is cross-multiplied.
AboveLoadFactor(buckets_filled, capacity) ==
    capacity /= 0 /\ 4 * ToFloat(buckets_filled) > 3 * ToFloat(capacity)

(***************************************************************************)
(* Hashing and comparison defaults                                         *)
(***************************************************************************)
\* the in-memory representation of a key: one byte
KeyBytes(key) == <<key>>

\* one round of FNV-1a on the 32-bit value <<hi, lo>>:
\* hval ^= byte; hval *= 0x01000193; hval &= 0xFFFFFFFF
Fnv1aStep(hval, byte) ==
    LET lo == BitXor(hval[2], byte)
        hi == hval[1]
        low == lo * 403
        high == hi * 403 + (lo % 256) * 256 + (low \div 65536)
    IN  <<high % 65536, low % 65536>>

RECURSIVE Fnv1aLoop(_, _, _)
Fnv1aLoop(hval, buf, bptr) ==
    IF bptr > Len(buf) THEN hval
    ELSE Fnv1aLoop(Fnv1aStep(hval, buf[bptr]), buf, bptr + 1)

\* offset basis 0x811c9dc5
hashmap_fnv1a_32_buf(buf) == Fnv1aLoop(<<33052, 40389>>, buf, 1)

\* HASH_CALLBACK is NULL: FNV-1a over the bytes of the key, converted to
\* size_t (the low 16 bits) and masked with capacity - 1
hashmap_hash_index(map, key) ==
    BitAnd(hashmap_fnv1a_32_buf(KeyBytes(key))[2], SizeDec(map.capacity))

RECURSIVE MemCmp(_, _, _)
MemCmp(b1, b2, i) ==
    IF i > Len(b1) THEN 0
    ELSE IF b1[i] < b2[i] THEN -1
    ELSE IF b1[i] > b2[i] THEN 1
    ELSE MemCmp(b1, b2, i + 1)

\* what a key that is a pointer references: two pointers that differ by 8
\* reference equal content
StringAt(key) == key % 8

\* faulty variant of hashmap_compare_keys: what the keys reference is
\* compared
hashmap_compare_keys_ByContent(key1, key2) ==
    IF StringAt(key1) = StringAt(key2) THEN 0 ELSE 1

\* COMPARISON_CALLBACK is NULL: memcmp of the two representations
hashmap_compare_keys(key1, key2) == MemCmp(KeyBytes(key1), KeyBytes(key2), 1)

(***************************************************************************)
(* The heap: mem.arr maps the address of a live bucket array to its slots  *)
(* (a sequence of node addresses, slot idx of the code is arr[idx + 1]),   *)
(* mem.node maps the address of a live chain node to its fields, and       *)
(* mem.fault records that the process was ended otherwise than by the      *)
(* panic handler: by a failed assert(), a release of a block that is not   *)
(* live, or an access through a null pointer.                              *)
(* The allocator grants mem.left more requests and reports failure from    *)
(* then on (NoLimit: it never fails); mem.denied records that it reported  *)
(* failure, mem.panic that hashmap_panic was entered.  A call that enters  *)
(* hashmap_panic stops there: it leaves the heap and the struct as they    *)
(* were at that point.                                                     *)
(***************************************************************************)
NoLimit == -1

EmptyMem == [arr |-> <<>>, node |-> <<>>, fault |-> FALSE,
             left |-> NoLimit, denied |-> FALSE, panic |-> FALSE]

Allocated(mem) == DOMAIN mem.arr \cup DOMAIN mem.node

\* the allocator: the lowest address that is not live, or NULL when it
\* grants no more requests
HASHMAP_REALLOC(mem) ==
    IF mem.left = 0 THEN NULL
    ELSE CHOOSE p \in 1..(Cardinality(Allocated(mem)) + 1) :
             /\ p \notin Allocated(mem)
             /\ \A q \in 1..(p - 1) : q \in Allocated(mem)

\* the state of the allocator after the request
AfterRealloc(mem) ==
    [mem EXCEPT !.denied = @ \/ mem.left = 0,
                !.left = IF @ > 0 THEN @ - 1 ELSE @]

\* hashmap_panic(message): control does not come back
hashmap_panic(mem) == [mem EXCEPT !.panic = TRUE]

HASHMAP_FREE(mem, p) ==
    IF p = NULL THEN mem
    ELSE IF p \in DOMAIN mem.arr
    THEN [mem EXCEPT !.arr = [q \in DOMAIN mem.arr \ {p} |-> mem.arr[q]]]
    ELSE IF p \in DOMAIN mem.node
    THEN [mem EXCEPT !.node = [q \in DOMAIN mem.node \ {p} |-> mem.node[q]]]
    ELSE [mem EXCEPT !.fault = TRUE]

\* assert(cond)
Assert_(mem, cond) == [mem EXCEPT !.fault = @ \/ ~cond]

\* calloc-like helper: a fresh bucket array of n empty slots
NewBuckets(mem, n) ==
    LET p == HASHMAP_REALLOC(mem)
    IN  IF p = NULL
        THEN [mem |-> hashmap_panic(AfterRealloc(mem)), ret |-> NULL]
        ELSE [mem |-> [AfterRealloc(mem) EXCEPT
                           !.arr = (p :> [i \in 1..n |-> NULL]) @@ @],
              ret |-> p]

\* memset(map, 0, sizeof(struct Hashmap))
ZeroMap == [buckets |-> NULL, iteration_callback |-> NULL, size |-> 0,
            capacity |-> 0, buckets_filled |-> 0]

\* map->buckets[idx]
Bucket(mem, map, idx) == mem.arr[map.buckets][idx + 1]

SetBucket(mem, map, idx, p) == [mem EXCEPT !.arr[map.buckets][idx + 1] = p]

(***************************************************************************)
(* Chain operations                                                        *)
(***************************************************************************)
\* faulty variant of hashmap_list_new: the result of the allocator is not
\* checked
hashmap_list_new_NoNullCheck(mem, next, key, value) ==
    LET p == HASHMAP_REALLOC(mem)
    IN  IF p = NULL
        THEN [mem |-> AfterRealloc(mem), ret |-> NULL]
        ELSE [mem |-> [AfterRealloc(mem) EXCEPT !.node =
                     (p :> [next |-> next, key |-> key, value |-> value]) @@ @],
              ret |-> p]

hashmap_list_new(mem, next, key, value) ==
    LET p == HASHMAP_REALLOC(mem)
    IN  IF p = NULL
        THEN [mem |-> hashmap_panic(AfterRealloc(mem)), ret |-> NULL]
        ELSE [mem |-> [AfterRealloc(mem) EXCEPT !.node =
                     (p :> [next |-> next, key |-> key, value |-> value]) @@ @],
              ret |-> p]

\* prev->next = n.ret, n being what hashmap_list_new returned; nothing is
\* assigned when it did not return
Link(n, prev) ==
    IF n.mem.panic THEN n.mem ELSE [n.mem EXCEPT !.node[prev].next = n.ret]

\* faulty variant of ListInsertLoop: an existing value is not overridden
RECURSIVE ListInsertLoop_KeepsValue(_, _, _, _, _)
ListInsertLoop_KeepsValue(mem, head, prev, key, value) ==
    IF head = NULL
    THEN LET n == hashmap_list_new(mem, NULL, key, value)
         IN  [mem |-> [n.mem EXCEPT !.node[prev].next = n.ret], ret |-> 0]
    ELSE IF hashmap_compare_keys(key, mem.node[head].key) = 0
    THEN [mem |-> mem, ret |-> 1]
    ELSE ListInsertLoop_KeepsValue(mem, mem.node[head].next, head, key, value)

\* faulty variant of ListInsertLoop: an override is reported as an insertion
RECURSIVE ListInsertLoop_ReportsNew(_, _, _, _, _)
ListInsertLoop_ReportsNew(mem, head, prev, key, value) ==
    IF head = NULL
    THEN LET n == hashmap_list_new(mem, NULL, key, value)
         IN  [mem |-> [n.mem EXCEPT !.node[prev].next = n.ret], ret |-> 0]
    ELSE IF hashmap_compare_keys(key, mem.node[head].key) = 0
    THEN [mem |-> [mem EXCEPT !.node[head].value = value], ret |-> 0]
    ELSE ListInsertLoop_ReportsNew(mem, mem.node[head].next, head, key, value)

\* faulty variant of ListInsertLoop: the value is stored in the node that
\* precedes the one holding the key, when there is one
RECURSIVE ListInsertLoop_OverridesPrev(_, _, _, _, _)
ListInsertLoop_OverridesPrev(mem, head, prev, key, value) ==
    IF head = NULL
    THEN [mem |-> Link(hashmap_list_new(mem, NULL, key, value), prev),
          ret |-> 0]
    ELSE IF hashmap_compare_keys(key, mem.node[head].key) = 0
    THEN [mem |-> [mem EXCEPT
                     !.node[IF prev = NULL THEN head ELSE prev].value = value],
          ret |-> 1]
    ELSE ListInsertLoop_OverridesPrev(mem, mem.node[head].next, head, key,
                                      value)

RECURSIVE ListInsertLoop(_, _, _, _, _)
ListInsertLoop(mem, head, prev, key, value) ==
    IF head = NULL
    THEN \* append to end of list
         [mem |-> Link(hashmap_list_new(mem, NULL, key, value), prev),
          ret |-> 0]
    ELSE IF hashmap_compare_keys(key, mem.node[head].key) = 0
    THEN \* override existing value
         [mem |-> [mem EXCEPT !.node[head].value = value], ret |-> 1]
    ELSE ListInsertLoop(mem, mem.node[head].next, head, key, value)

\* faulty variant of hashmap_list_insert: the key is appended without a
\* comparison with the keys of the chain
RECURSIVE ListInsertLoop_NoCompare(_, _, _, _, _)
ListInsertLoop_NoCompare(mem, head, prev, key, value) ==
    IF head = NULL
    THEN [mem |-> Link(hashmap_list_new(mem, NULL, key, value), prev),
          ret |-> 0]
    ELSE ListInsertLoop_NoCompare(mem, mem.node[head].next, head, key, value)

hashmap_list_insert_NoCompare(mem, head, key, value) ==
    ListInsertLoop_NoCompare(Assert_(mem, head /= NULL), head, NULL, key,
                             value)

hashmap_list_insert(mem, head, key, value) ==
    ListInsertLoop(Assert_(mem, head /= NULL), head, NULL, key, value)

\* faulty variant of hashmap_list_find: the value of every node visited is
\* copied to out before its key is compared
RECURSIVE hashmap_list_find_CopiesFirst(_, _, _, _)
hashmap_list_find_CopiesFirst(mem, head, key, out) ==
    IF head = NULL THEN [ret |-> 0, out |-> out]
    ELSE LET copied == IF out /= <<>> THEN <<mem.node[head].value>> ELSE out
         IN  IF hashmap_compare_keys(mem.node[head].key, key) = 0
             THEN [ret |-> 1, out |-> copied]
             ELSE hashmap_list_find_CopiesFirst(mem, mem.node[head].next, key,
                                                copied)

\* out is the caller's output location: <<>> when NULL was passed,
\* otherwise <<v>> with v the value it currently holds
RECURSIVE hashmap_list_find(_, _, _, _)
hashmap_list_find(mem, head, key, out) ==
    IF head = NULL THEN [ret |-> 0, out |-> out]
    ELSE IF hashmap_compare_keys(mem.node[head].key, key) = 0
    THEN [ret |-> 1,
          out |-> IF out /= <<>> THEN <<mem.node[head].value>> ELSE out]
    ELSE hashmap_list_find(mem, mem.node[head].next, key, out)

\* faulty variant of ListRemoveLoop: the removed value is not written to out
RECURSIVE ListRemoveLoop_KeepsOut(_, _, _, _, _, _)
ListRemoveLoop_KeepsOut(mem, list, head, prev, key, out) ==
    IF head = NULL THEN [mem |-> mem, list |-> list, ret |-> 0, out |-> out]
    ELSE IF hashmap_compare_keys(mem.node[head].key, key) /= 0
    THEN ListRemoveLoop_KeepsOut(mem, list, mem.node[head].next, head, key,
                                 out)
    ELSE LET unlinked ==
                 IF prev = NULL THEN mem
                 ELSE [mem EXCEPT !.node[prev].next = mem.node[head].next]
         IN  [mem |-> HASHMAP_FREE(unlinked, head),
              list |-> IF prev = NULL THEN mem.node[head].next ELSE list,
              ret |-> 1,
              out |-> out]

\* the chain is referenced through its head slot: returns the new head
RECURSIVE ListRemoveLoop(_, _, _, _, _, _)
ListRemoveLoop(mem, list, head, prev, key, out) ==
    IF head = NULL THEN [mem |-> mem, list |-> list, ret |-> 0, out |-> out]
    ELSE IF hashmap_compare_keys(mem.node[head].key, key) /= 0
    THEN ListRemoveLoop(mem, list, mem.node[head].next, head, key, out)
    ELSE LET unlinked ==
                 IF prev = NULL THEN mem
                 ELSE [mem EXCEPT !.node[prev].next = mem.node[head].next]
         IN  [mem |-> HASHMAP_FREE(unlinked, head),
              list |-> IF prev = NULL THEN mem.node[head].next ELSE list,
              ret |-> 1,
              out |-> IF out /= <<>> THEN <<mem.node[head].value>> ELSE out]

\* faulty variant of hashmap_list_remove: unlinking the first node empties
\* the head slot
HeadDropped(mem, list, key, r) ==
    IF list /= NULL /\ hashmap_compare_keys(mem.node[list].key, key) = 0
    THEN [r EXCEPT !.list = NULL]
    ELSE r

hashmap_list_remove_DropsRest(mem, list, key, out) ==
    HeadDropped(mem, list, key,
                ListRemoveLoop(mem, list, list, NULL, key, out))

hashmap_list_remove(mem, list, key, out) ==
    ListRemoveLoop(mem, list, list, NULL, key, out)

\* faulty variant of hashmap_list_free: only the head of the chain is
\* released
hashmap_list_free_HeadOnly(mem, head) == HASHMAP_FREE(mem, head)

RECURSIVE hashmap_list_free(_, _)
hashmap_list_free(mem, head) ==
    IF head = NULL THEN mem
    ELSE IF head \notin DOMAIN mem.node THEN [mem EXCEPT !.fault = TRUE]
    ELSE hashmap_list_free(HASHMAP_FREE(mem, head), mem.node[head].next)

RECURSIVE ListDuplicateLoop(_, _, _)
ListDuplicateLoop(mem, head, new_next) ==
    IF mem.panic \/ mem.node[head].next = NULL THEN mem
    ELSE LET n == hashmap_list_new(mem, NULL, mem.node[mem.node[head].next].key,
                                   mem.node[mem.node[head].next].value)
         IN  ListDuplicateLoop(Link(n, new_next), mem.node[head].next, n.ret)

\* faulty variant of hashmap_list_duplicate: the chain itself is returned
hashmap_list_duplicate_SharesChain(mem, head) == [mem |-> mem, ret |-> head]

\* faulty variant of hashmap_list_duplicate: only the head is copied, the
\* copy links to the rest of the chain it was made from
hashmap_list_duplicate_SharesTail(mem, head) ==
    IF head = NULL THEN [mem |-> mem, ret |-> NULL]
    ELSE hashmap_list_new(mem, mem.node[head].next, mem.node[head].key,
                          mem.node[head].value)

hashmap_list_duplicate(mem, head) ==
    IF head = NULL THEN [mem |-> mem, ret |-> NULL]
    ELSE LET n == hashmap_list_new(mem, NULL, mem.node[head].key,
                                   mem.node[head].value)
         IN  [mem |-> ListDuplicateLoop(n.mem, head, n.ret), ret |-> n.ret]

(***************************************************************************)
(* Table operations.  A struct Hashmap is a record; an operation takes the *)
(* heap and the struct it is given a pointer to and returns both as the    *)
(* call leaves them (with the return value of the call, if it has one).    *)
(* A call whose entry assertion fails aborts: it changes nothing but       *)
(* mem.fault.                                                              *)
(***************************************************************************)
hashmap_assert_internal(mem, map) ==
    Assert_(mem, /\ map.capacity > 0
                 /\ BitAnd(map.capacity, SizeDec(map.capacity)) = 0
                 /\ map.size >= map.buckets_filled
                 /\ map.buckets_filled <= map.capacity)

hashmap_assert(mem, map) ==
    IF map.buckets = NULL
    THEN Assert_(mem, map.size = 0 /\ map.buckets_filled = 0
                      /\ map.capacity = 0)
    ELSE hashmap_assert_internal(mem, map)

\* faulty variant of hashmap_init: the memset of the struct is missing
hashmap_init_NoMemset(mem, map) ==
    LET b == NewBuckets(mem, HASHMAP_DEFAULT_CAPACITY)
        inited == [map EXCEPT !.buckets = b.ret,
                              !.capacity = HASHMAP_DEFAULT_CAPACITY]
    IN  [mem |-> hashmap_assert(b.mem, inited), map |-> inited]

\* the closing hashmap_assert(map) of a function, reached when the function
\* got that far
AssertReturned(mem, map) ==
    IF mem.panic THEN mem ELSE hashmap_assert(mem, map)

hashmap_init(mem, map) ==
    LET b == NewBuckets(mem, HASHMAP_DEFAULT_CAPACITY)
        inited == [ZeroMap EXCEPT !.buckets = b.ret,
                                  !.capacity = HASHMAP_DEFAULT_CAPACITY]
    IN  IF b.mem.panic THEN [mem |-> b.mem, map |-> ZeroMap]
        ELSE [mem |-> hashmap_assert(b.mem, inited), map |-> inited]

RECURSIVE hashmap_insert(_, _, _, _)
RECURSIVE hashmap_grow(_, _)

\* assert(hashmap_insert(new_map, key, value) == 0); return 1;
\* r is what the hashmap_insert returned
GrowInternalReturn(r) ==
    IF r.mem.panic THEN [mem |-> r.mem, context |-> r.map, ret |-> 0]
    ELSE [mem |-> Assert_(r.mem, r.ret = 0), context |-> r.map, ret |-> 1]

hashmap_grow_internal(mem, key, value, new_map) ==
    GrowInternalReturn(hashmap_insert(mem, new_map, key, value))

\* hashmap_grow_internal in the build with NDEBUG defined: assert(e) expands
\* to ((void)0) and e, the hashmap_insert, is not evaluated; "return 1;"
\* is all that is left
hashmap_grow_internal_ndebug(mem, key, value, new_map) ==
    [mem |-> mem, context |-> new_map, ret |-> 1]

\* faulty variant of Callback: hashmap_grow_internal reinserts the key
\* without its value
Callback_DropsValue(callback, mem, key, value, context) ==
    IF callback = GROW_INTERNAL
    THEN hashmap_grow_internal(mem, key, NULL, context)
    ELSE [mem |-> mem, context |-> context, ret |-> 1]

\* The callbacks of the caller.  Their context object is a record: count is
\* the counter the context pointer refers to, and calls lists the
\* invocations made so far, each as <<key, value, returned value>>.
\* USER_CALLBACK (test_iterate_empty_function) returns 1;
\* BREAK_CALLBACK (test_iterate_break_after_x_iter) returns 0 once count has
\* reached TEST_ITERATIONS_BREAK, and otherwise adds 1 to count and returns 1
UserCallback(callback, key, value, context) ==
    IF callback = BREAK_CALLBACK /\ context.count >= TEST_ITERATIONS_BREAK
    THEN [context |-> [context EXCEPT !.calls = Append(@, <<key, value, 0>>)],
          ret |-> 0]
    ELSE [context |-> [count |-> IF callback = BREAK_CALLBACK
                                 THEN context.count + 1
                                 ELSE context.count,
                       calls |-> Append(context.calls, <<key, value, 1>>)],
          ret |-> 1]

UserCallbackReturn(mem, r) ==
    [mem |-> mem, context |-> r.context, ret |-> r.ret]

\* the callback behind a function pointer, applied to one entry; context is
\* the object the context pointer refers to
Callback(callback, mem, key, value, context) ==
    IF callback = GROW_INTERNAL
    THEN hashmap_grow_internal(mem, key, value, context)
    ELSE IF callback = GROW_INTERNAL_NDEBUG
    THEN hashmap_grow_internal_ndebug(mem, key, value, context)
    ELSE UserCallbackReturn(mem, UserCallback(callback, key, value, context))

RECURSIVE ListIterateLoop(_, _, _, _)

\* faulty variant of ListIterateLoop: only the head of the chain is visited
ListIterateLoop_HeadOnly(mem, head, callback, context) ==
    IF head = NULL THEN [mem |-> mem, context |-> context, ret |-> 1]
    ELSE Callback(callback, mem, mem.node[head].key, mem.node[head].value,
                  context)

\* faulty variant of ListIterateNext: the value the callback returned is
\* ignored
ListIterateNext_IgnoresStop(r, next, callback) ==
    ListIterateLoop(r.mem, next, callback, r.context)

\* the rest of the loop of hashmap_list_iterate once the callback returned r
ListIterateNext(r, next, callback) ==
    IF r.ret = 0 \/ r.mem.panic
    THEN [mem |-> r.mem, context |-> r.context, ret |-> 0]
    ELSE ListIterateLoop(r.mem, next, callback, r.context)

ListIterateLoop(mem, head, callback, context) ==
    IF head = NULL THEN [mem |-> mem, context |-> context, ret |-> 1]
    ELSE ListIterateNext(Callback(callback, mem, mem.node[head].key,
                                  mem.node[head].value, context),
                         mem.node[head].next, callback)

hashmap_list_iterate(mem, head, callback, context) ==
    ListIterateLoop(Assert_(mem, callback /= NULL), head, callback, context)

\* The loops "for (idx = 0; idx < map->capacity; idx++)" of the table
\* operations are unfolded over the index range lo..hi-1 by halving the
\* range: the left half runs first and the right half continues from what
\* it left, so the buckets are processed in ascending index order.

\* the loop of hashmap_iterate; ret = 0 when a chain iteration halted it
RECURSIVE IterateLoop(_, _, _, _, _)

\* the right half of the range, r being what the left half returned
IterateRest(r, map, mid, hi) ==
    IF r.ret = 0 THEN r ELSE IterateLoop(r.mem, map, mid, hi, r.context)

IterateLoop(mem, map, lo, hi, context) ==
    IF hi <= lo THEN [mem |-> mem, context |-> context, ret |-> 1]
    ELSE IF hi = lo + 1
    THEN hashmap_list_iterate(mem, Bucket(mem, map, lo),
                              map.iteration_callback, context)
    ELSE IterateRest(IterateLoop(mem, map, lo, (lo + hi) \div 2, context),
                     map, (lo + hi) \div 2, hi)

IterateReturn(r) == [mem |-> r.mem, context |-> r.context]

\* faulty variant of IterateEntry: the return on a NULL callback is missing
IterateEntry_NoCallbackCheck(a, map, context) ==
    IF a.fault THEN [mem |-> a, context |-> context]
    ELSE IterateReturn(IterateLoop(a, map, 0, map.capacity, context))

\* hashmap_iterate after its entry assertion, which left the heap a
IterateEntry(a, map, context) ==
    IF a.fault \/ map.iteration_callback = NULL
    THEN [mem |-> a, context |-> context]
    ELSE IterateReturn(IterateLoop(a, map, 0, map.capacity, context))

hashmap_iterate(mem, map, context) ==
    IterateEntry(hashmap_assert(mem, map), map, context)

\* the loop of hashmap_free
RECURSIVE FreeLoop(_, _, _, _)
FreeLoop(mem, map, lo, hi) ==
    IF hi <= lo \/ mem.fault THEN mem
    ELSE IF hi = lo + 1 THEN hashmap_list_free(mem, Bucket(mem, map, lo))
    ELSE LET mid == (lo + hi) \div 2
         IN  FreeLoop(FreeLoop(mem, map, lo, mid), map, mid, hi)

\* faulty variant of hashmap_free: only the buckets pointer is reset
hashmap_free_KeepsFields(mem, map) ==
    LET a == hashmap_assert(mem, map)
    IN  IF a.fault THEN [mem |-> a, map |-> map]
        ELSE [mem |-> HASHMAP_FREE(FreeLoop(a, map, 0, map.capacity),
                                   map.buckets),
              map |-> [map EXCEPT !.buckets = NULL]]

\* faulty variant of hashmap_free: the callback survives the reset
hashmap_free_KeepsCallback(mem, map) ==
    LET a == hashmap_assert(mem, map)
    IN  IF a.fault THEN [mem |-> a, map |-> map]
        ELSE [mem |-> HASHMAP_FREE(FreeLoop(a, map, 0, map.capacity),
                                   map.buckets),
              map |-> [ZeroMap EXCEPT !.iteration_callback =
                                          map.iteration_callback]]

hashmap_free(mem, map) ==
    LET a == hashmap_assert(mem, map)
    IN  IF a.fault THEN [mem |-> a, map |-> map]
        ELSE [mem |-> HASHMAP_FREE(FreeLoop(a, map, 0, map.capacity),
                                   map.buckets),
              map |-> ZeroMap]

\* capacity |= capacity >> n
Smear(capacity, n) == BitOr(capacity, ShiftRight(capacity, n))

\* a shift that is compiled in only when sizeof(size_t) >= bytes
SmearIf(capacity, n, bytes) ==
    IF SIZEOF_SIZE_T >= bytes THEN Smear(capacity, n) ELSE capacity

\* faulty variant of NextPowerOfTwo: the final increment is missing
NextPowerOfTwo_NoIncrement(capacity) ==
    Smear(Smear(Smear(Smear(capacity, 1), 2), 4), 8)

\* the bit smear of hashmap_grow: the shifts by 16 and by 32 are compiled
\* in only when size_t has at least 4, respectively 8, bytes
NextPowerOfTwo(capacity) ==
    SizeInc(SmearIf(SmearIf(Smear(Smear(Smear(Smear(capacity, 1), 2), 4), 8),
                            16, 4),
                    32, 8))

\* the table as an operation finds it after the lazy initialization; a is
\* the heap its entry assertion left
Inited(a, map0) ==
    IF map0.buckets = NULL THEN hashmap_init(a, map0)
    ELSE [mem |-> a, map |-> map0]

\* the end of hashmap_grow: it is what the rehashing hashmap_iterate
\* returned, it.context the new table
GrowFinish(map, it) ==
    IF it.mem.panic
    THEN \* a reinsertion did not return: the internal callback is installed
         [mem |-> it.mem,
          map |-> [map EXCEPT !.iteration_callback = GROW_INTERNAL]]
    ELSE IF map.size /= it.context.size
    THEN \* failed to grow, revert operation
         [mem |-> hashmap_free(Assert_(it.mem, map.size >= it.context.size),
                               it.context).mem,
          map |-> map]
    ELSE [mem |-> hashmap_free(
                      Assert_(it.mem, map.size >= it.context.size),
                      [map EXCEPT !.iteration_callback = GROW_INTERNAL]).mem,
          map |-> [it.context EXCEPT !.iteration_callback =
                                         map.iteration_callback]]

\* the rehash of hashmap_grow into the new bucket array b.ret
GrowRehash(map, b, new_capacity) ==
    IF b.mem.panic THEN [mem |-> b.mem, map |-> map]
    ELSE
    GrowFinish(map,
               hashmap_iterate(
                   b.mem,
                   [map EXCEPT !.iteration_callback = GROW_INTERNAL],
                   [ZeroMap EXCEPT !.capacity = new_capacity,
                                   !.buckets = b.ret]))

\* faulty variant of GrowTo: the internal callback is installed before the
\* overflow checks and stays installed when they return
GrowTo_InstallsCallback(i, new_capacity) ==
    IF new_capacity < i.map.capacity
       \/ new_capacity > SIZE_MAX \div SIZEOF_NODE_PTR
    THEN [i EXCEPT !.map.iteration_callback = GROW_INTERNAL]
    ELSE GrowRehash(i.map, NewBuckets(i.mem, new_capacity), new_capacity)

\* the overflow checks of hashmap_grow on the initialized table i
GrowTo(i, new_capacity) ==
    IF new_capacity < i.map.capacity THEN i
    ELSE IF new_capacity > SIZE_MAX \div SIZEOF_NODE_PTR THEN i
    ELSE GrowRehash(i.map, NewBuckets(i.mem, new_capacity), new_capacity)

GrowInited(i) ==
    IF i.mem.panic THEN i ELSE GrowTo(i, NextPowerOfTwo(i.map.capacity))

\* faulty variant of GrowEntry: an empty table is initialized and not grown
GrowEntry_InitOnly(a, map0) ==
    IF a.fault THEN [mem |-> a, map |-> map0]
    ELSE IF map0.buckets = NULL THEN hashmap_init(a, map0)
    ELSE GrowInited([mem |-> a, map |-> map0])

\* hashmap_grow after its entry assertion, which left the heap a
GrowEntry(a, map0) ==
    IF a.fault THEN [mem |-> a, map |-> map0]
    ELSE GrowInited(Inited(a, map0))

hashmap_grow(mem0, map0) == GrowEntry(hashmap_assert(mem0, map0), map0)

\* faulty variant of InsertNew: buckets_filled is not incremented
InsertNew_KeepsFilled(g, idx, n) ==
    [mem |-> SetBucket(n.mem, g.map, idx, n.ret),
     map |-> [g.map EXCEPT !.size = SizeInc(@)],
     ret |-> 0]

\* the new chain of one node n.ret in the empty bucket idx
InsertNew(g, idx, n) ==
    IF n.mem.panic THEN [mem |-> n.mem, map |-> g.map, ret |-> 0]
    ELSE [mem |-> SetBucket(n.mem, g.map, idx, n.ret),
          map |-> [g.map EXCEPT !.buckets_filled = SizeInc(@),
                                !.size = SizeInc(@)],
          ret |-> 0]

\* l is what hashmap_list_insert returned
\* faulty variant of InsertChained: size is not incremented for a key that
\* was appended to a chain
InsertChained_KeepsSize(g, l) ==
    [mem |-> l.mem, map |-> g.map, ret |-> l.ret]

InsertChained(g, l) ==
    [mem |-> l.mem,
     map |-> IF l.ret = 0 /\ ~l.mem.panic
             THEN [g.map EXCEPT !.size = SizeInc(@)]
             ELSE g.map,
     ret |-> l.ret]

\* faulty variant of InsertAt: a new key is linked right after the head of
\* the chain, not at its tail
InsertAt_AfterHead(g, idx, key, value) ==
    IF Bucket(g.mem, g.map, idx) = NULL
    THEN InsertNew(g, idx, hashmap_list_new(g.mem, NULL, key, value))
    ELSE IF hashmap_list_find(g.mem, Bucket(g.mem, g.map, idx), key, <<>>).ret
                = 1
    THEN InsertChained(g, hashmap_list_insert(g.mem,
                                              Bucket(g.mem, g.map, idx),
                                              key, value))
    ELSE InsertChained(
             g,
             [mem |-> Link(hashmap_list_new(
                               g.mem,
                               g.mem.node[Bucket(g.mem, g.map, idx)].next,
                               key, value),
                           Bucket(g.mem, g.map, idx)),
              ret |-> 0])

\* the placement of the entry in bucket idx of the table g
InsertAt(g, idx, key, value) ==
    IF Bucket(g.mem, g.map, idx) = NULL
    THEN InsertNew(g, idx, hashmap_list_new(g.mem, NULL, key, value))
    ELSE InsertChained(g, hashmap_list_insert(g.mem,
                                              Bucket(g.mem, g.map, idx),
                                              key, value))

\* the placement of the entry in the table g
InsertPlace(g, key, value) ==
    IF g.mem.panic THEN [mem |-> g.mem, map |-> g.map, ret |-> 0]
    ELSE InsertAt(g, hashmap_hash_index(g.map, key), key, value)

\* the load factor test of hashmap_insert on the initialized table i
InsertInited(i, key, value) ==
    InsertPlace(IF ~i.mem.panic /\ AboveLoadFactor(i.map.buckets_filled, i.map.capacity)
                THEN hashmap_grow(i.mem, i.map)
                ELSE i,
                key, value)

\* hashmap_insert after its entry assertion, which left the heap a
InsertEntry(a, map0, key, value) ==
    IF a.fault THEN [mem |-> a, map |-> map0, ret |-> 0]
    ELSE InsertInited(Inited(a, map0), key, value)

hashmap_insert(mem0, map0, key, value) ==
    InsertEntry(hashmap_assert(mem0, map0), map0, key, value)

(***************************************************************************)
(* The build with NDEBUG defined.  Every assert(e) expands to ((void)0).   *)
(* The assertions whose expression only reads hold in every state this     *)
(* build reaches, so the operators above stand for them unchanged; the one *)
(* assertion whose expression calls hashmap_insert, in                     *)
(* hashmap_grow_internal, makes hashmap_grow and hashmap_insert differ.    *)
(***************************************************************************)
\* the rehash of hashmap_grow: the hashmap_iterate invokes the internal
\* callback, as this build compiled it, on every entry
GrowRehash_ndebug(map, b, new_capacity) ==
    IF b.mem.panic THEN [mem |-> b.mem, map |-> map]
    ELSE
    GrowFinish(map,
               hashmap_iterate(
                   b.mem,
                   [map EXCEPT !.iteration_callback = GROW_INTERNAL_NDEBUG],
                   [ZeroMap EXCEPT !.capacity = new_capacity,
                                   !.buckets = b.ret]))

GrowTo_ndebug(i, new_capacity) ==
    IF new_capacity < i.map.capacity THEN i
    ELSE IF new_capacity > SIZE_MAX \div SIZEOF_NODE_PTR THEN i
    ELSE GrowRehash_ndebug(i.map, NewBuckets(i.mem, new_capacity),
                           new_capacity)

hashmap_grow_ndebug(mem0, map0) ==
    LET i == Inited(mem0, map0)
    IN  IF i.mem.panic THEN i
        ELSE GrowTo_ndebug(i, NextPowerOfTwo(i.map.capacity))

hashmap_insert_ndebug(mem0, map0, key, value) ==
    LET i == Inited(mem0, map0)
    IN  InsertPlace(IF ~i.mem.panic
                       /\ AboveLoadFactor(i.map.buckets_filled,
                                          i.map.capacity)
                    THEN hashmap_grow_ndebug(i.mem, i.map)
                    ELSE i,
                    key, value)

\* faulty variant of hashmap_remove: buckets_filled is never decremented
hashmap_remove_KeepsFilled(mem0, map, key, out) ==
    LET a == hashmap_assert(mem0, map)
    IN  IF a.fault \/ map.buckets = NULL
        THEN [mem |-> a, map |-> map, ret |-> 0, out |-> out]
        ELSE LET idx == hashmap_hash_index(map, key)
                 r == hashmap_list_remove(a, Bucket(a, map, idx), key, out)
             IN  IF r.ret = 1
                 THEN [mem |-> Assert_(SetBucket(r.mem, map, idx, r.list),
                                       map.size > 0),
                       map |-> [map EXCEPT !.size = SizeDec(@)],
                       ret |-> 1, out |-> r.out]
                 ELSE [mem |-> a, map |-> map, ret |-> 0, out |-> out]

\* faulty variant of hashmap_remove: an empty table is initialized first
hashmap_remove_LazyInit(mem0, map, key, out) ==
    LET a == hashmap_assert(mem0, map)
    IN  IF a.fault
        THEN [mem |-> a, map |-> map, ret |-> 0, out |-> out]
        ELSE IF map.buckets = NULL
        THEN [mem |-> hashmap_init(a, map).mem,
              map |-> hashmap_init(a, map).map, ret |-> 0, out |-> out]
        ELSE LET idx == hashmap_hash_index(map, key)
                 r == hashmap_list_remove(a, Bucket(a, map, idx), key, out)
                 stored == SetBucket(r.mem, map, idx, r.list)
                 emptied == r.list = NULL
             IN  IF r.ret = 1
                 THEN [mem |-> Assert_(stored,
                                 (emptied => map.buckets_filled > 0)
                                 /\ map.size > 0),
                       map |-> [map EXCEPT
                                  !.buckets_filled =
                                      IF emptied THEN SizeDec(@) ELSE @,
                                  !.size = SizeDec(@)],
                       ret |-> 1, out |-> r.out]
                 ELSE [mem |-> a, map |-> map, ret |-> 0, out |-> out]

hashmap_remove(mem0, map, key, out) ==
    LET a == hashmap_assert(mem0, map)
    IN  IF a.fault \/ map.buckets = NULL
        THEN [mem |-> a, map |-> map, ret |-> 0, out |-> out]
        ELSE LET idx == hashmap_hash_index(map, key)
                 r == hashmap_list_remove(a, Bucket(a, map, idx), key, out)
                 stored == SetBucket(r.mem, map, idx, r.list)
                 emptied == r.list = NULL
             IN  IF r.ret = 1
                 THEN [mem |-> Assert_(stored,
                                 (emptied => map.buckets_filled > 0)
                                 /\ map.size > 0),
                       map |-> [map EXCEPT
                                  !.buckets_filled =
                                      IF emptied THEN SizeDec(@) ELSE @,
                                  !.size = SizeDec(@)],
                       ret |-> 1, out |-> r.out]
                 ELSE [mem |-> a, map |-> map, ret |-> 0, out |-> out]

hashmap_get(mem, map, key, out) ==
    IF hashmap_assert(mem, map).fault \/ map.buckets = NULL
    THEN [ret |-> 0, out |-> out]
    ELSE hashmap_list_find(mem, Bucket(mem, map, hashmap_hash_index(map, key)),
                           key, out)

hashmap_has(mem, map, key) == hashmap_get(mem, map, key, <<>>).ret

hashmap_size(map) == map.size

\* the loop of hashmap_duplicate
RECURSIVE DuplicateLoop(_, _, _, _, _)
DuplicateLoop(mem, dest, src, lo, hi) ==
    IF hi <= lo \/ mem.fault \/ mem.panic THEN mem
    ELSE IF hi = lo + 1
    THEN LET d == hashmap_list_duplicate(mem, Bucket(mem, src, lo))
         IN  IF d.mem.panic THEN d.mem ELSE SetBucket(d.mem, dest, lo, d.ret)
    ELSE LET mid == (lo + hi) \div 2
         IN  DuplicateLoop(DuplicateLoop(mem, dest, src, lo, mid), dest, src,
                           mid, hi)

\* faulty variant of hashmap_duplicate: with an empty src it returns
\* without the memset of dest
hashmap_duplicate_KeepsDest(mem0, dest0, src) ==
    LET a == hashmap_assert(mem0, src)
    IN  IF a.fault \/ src.capacity = 0 THEN [mem |-> a, dest |-> dest0]
        ELSE LET b == NewBuckets(a, src.capacity)
                 dest == [buckets |-> b.ret,
                          iteration_callback |-> src.iteration_callback,
                          size |-> src.size,
                          capacity |-> src.capacity,
                          buckets_filled |-> src.buckets_filled]
                 copied == DuplicateLoop(b.mem, dest, src, 0, dest.capacity)
             IN  [mem |-> hashmap_assert(copied, dest), dest |-> dest]

\* hashmap_duplicate once the bucket array b of the copy was requested
DuplicateInto(b, dest0, src) ==
    IF b.mem.panic
    THEN [mem |-> b.mem, dest |-> [dest0 EXCEPT !.buckets = NULL]]
    ELSE LET dest == [buckets |-> b.ret,
                      iteration_callback |-> src.iteration_callback,
                      size |-> src.size,
                      capacity |-> src.capacity,
                      buckets_filled |-> src.buckets_filled]
         IN  [mem |-> AssertReturned(
                          DuplicateLoop(b.mem, dest, src, 0, dest.capacity),
                          dest),
              dest |-> dest]

\* faulty variant of hashmap_duplicate: what dest holds is released first
hashmap_duplicate_FreesDest(mem0, dest0, src) ==
    LET a == hashmap_assert(mem0, src)
    IN  IF a.fault THEN [mem |-> a, dest |-> dest0]
        ELSE IF src.capacity = 0
        THEN [mem |-> hashmap_free(a, dest0).mem, dest |-> ZeroMap]
        ELSE DuplicateInto(NewBuckets(hashmap_free(a, dest0).mem,
                                      src.capacity),
                           dest0, src)

hashmap_duplicate(mem0, dest0, src) ==
    LET a == hashmap_assert(mem0, src)
    IN  IF a.fault THEN [mem |-> a, dest |-> dest0]
        ELSE IF src.capacity = 0 THEN [mem |-> a, dest |-> ZeroMap]
        ELSE DuplicateInto(NewBuckets(a, src.capacity), dest0, src)

\* the loop of hashmap_clear
RECURSIVE ClearLoop(_, _, _, _)
ClearLoop(mem, map, lo, hi) ==
    IF hi <= lo \/ mem.fault THEN mem
    ELSE IF hi = lo + 1
    THEN SetBucket(hashmap_list_free(mem, Bucket(mem, map, lo)), map, lo, NULL)
    ELSE LET mid == (lo + hi) \div 2
         IN  ClearLoop(ClearLoop(mem, map, lo, mid), map, mid, hi)

\* faulty variant of hashmap_clear: buckets_filled is not reset
hashmap_clear_KeepsFilled(mem, map) ==
    LET a == hashmap_assert(mem, map)
    IN  IF a.fault THEN [mem |-> a, map |-> map]
        ELSE [mem |-> ClearLoop(a, map, 0, map.capacity),
              map |-> [map EXCEPT !.size = 0]]

\* faulty variant of hashmap_clear: an empty table is initialized first
hashmap_clear_LazyInit(mem, map) ==
    LET a == hashmap_assert(mem, map)
    IN  IF a.fault THEN [mem |-> a, map |-> map]
        ELSE IF map.buckets = NULL THEN hashmap_init(a, map)
        ELSE [mem |-> ClearLoop(a, map, 0, map.capacity),
              map |-> [map EXCEPT !.size = 0, !.buckets_filled = 0]]

hashmap_clear(mem, map) ==
    LET a == hashmap_assert(mem, map)
    IN  IF a.fault THEN [mem |-> a, map |-> map]
        ELSE [mem |-> ClearLoop(a, map, 0, map.capacity),
              map |-> [map EXCEPT !.size = 0, !.buckets_filled = 0]]
(***************************************************************************)
(* Calls with a null table pointer.  Every function but hashmap_size       *)
(* opens with                                                              *)
(*     if (map == NULL) {                                                  *)
(*         if (HASHMAP_NO_PANIC_ON_NULL) { return [-1]; }                  *)
(*         hashmap_panic("Null passed to ...");                            *)
(*     }                                                                   *)
(* no_panic is the value HASHMAP_NO_PANIC_ON_NULL has in the build.  Each  *)
(* operator gives the set of the outcomes [mem, ret] of the call; a void   *)
(* function has ret = 0.                                                   *)
(***************************************************************************)
HASHMAP_NO_PANIC_ON_NULL == 0

\* the value of HASHMAP_NO_PANIC_ON_NULL in a build that tolerates NULL
NO_PANIC == 1

NullArgument(no_panic, mem, ret) ==
    IF no_panic /= 0 THEN [mem |-> mem, ret |-> ret]
    ELSE [mem |-> hashmap_panic(mem), ret |-> 0]

hashmap_init_null(no_panic, mem) == {NullArgument(no_panic, mem, 0)}

hashmap_grow_null(no_panic, mem) == {NullArgument(no_panic, mem, 0)}

hashmap_insert_null(no_panic, mem) == {NullArgument(no_panic, mem, -1)}

hashmap_remove_null(no_panic, mem) == {NullArgument(no_panic, mem, -1)}

hashmap_get_null(no_panic, mem) == {NullArgument(no_panic, mem, -1)}

\* return hashmap_get(map, key, NULL);
hashmap_has_null(no_panic, mem) == hashmap_get_null(no_panic, mem)

\* what a read through the null pointer may give when it does not trap
UndefinedSizes == {0, SIZE_MAX}

\* "return map->size;" with no test of map: the read through the null
\* pointer is undefined; the process is ended by the trap, or the call
\* returns whatever the read gave
hashmap_size_null(no_panic, mem) ==
    {[mem |-> [mem EXCEPT !.fault = TRUE], ret |-> 0]}
        \cup {[mem |-> mem, ret |-> v] : v \in UndefinedSizes}

hashmap_free_null(no_panic, mem) == {NullArgument(no_panic, mem, 0)}

hashmap_iterate_null(no_panic, mem) == {NullArgument(no_panic, mem, 0)}

\* dest == NULL || src == NULL
hashmap_duplicate_null(no_panic, mem) == {NullArgument(no_panic, mem, 0)}

hashmap_clear_null(no_panic, mem) == {NullArgument(no_panic, mem, 0)}

(***************************************************************************)
(* The callers.  Two tables exist, map and dest; every action is one call  *)
(* of a public operation, and records the call and what it returned.       *)
(* The unrestricted caller (Spec) calls every operation with every         *)
(* argument, in any order, on map while dest owns nothing; it duplicates   *)
(* map into dest or dest into map when the destination owns nothing, and   *)
(* frees either table at any time.                                         *)
(***************************************************************************)
VARIABLES
    mem,     \* the heap
    maps,    \* the two struct Hashmap objects of the caller
    last,    \* the last call: operation, table, arguments, results
    shadow   \* per table and key: <<v>> if the key was last inserted with v
             \* and not removed or dropped since, <<>> otherwise

vars == <<mem, maps, last, shadow>>

Tables == {"map", "dest"}

\* keys of the unrestricted caller: 5 and 13 share bucket 0 at capacity 8 and
\* are split by a growth to 16; 1 lies in bucket 4
MainKeys == {1, 5, 13}

\* keys of the loading caller, in the order in which it inserts them: at
\* capacity 8 the keys 0..5 lie in six different buckets, 8 shares the bucket
\* of 0, and 6 and 7 lie in the two remaining buckets
LoadOrder == <<0, 1, 2, 3, 4, 5, 8, 6, 7>>

\* keys of the chaining caller, in the order in which it inserts them; with
\* h the low six bits of the hash of a key, the keys have h = 1, 17, 2, 18,
\* 3, 19, 4, 20, 5, 21, 6, 22, 7, 23, 8, 24, 9, 25, 10, 26, 11, 27, 12, 28,
\* 44, 0, 13
ChainOrder == <<30, 14, 51, 35, 20, 4, 41, 25, 2, 50, 39, 23, 56, 40, 29, 13,
                54, 38, 11, 59, 44, 28, 1, 49, 33, 5, 26>>

\* largest capacity from which the chaining caller requests a growth
MaxChainCapacity == 16

Range(seq) == {seq[i] : i \in 1..Len(seq)}

AllKeys == MainKeys \cup Range(LoadOrder) \cup Range(ChainOrder)

Values == {1, 2}

\* what an output location holds before a call
OutInit == 0

NoShadow == [k \in AllKeys |-> <<>>]

\* no context object
NoContext == <<>>

NoCall == [op |-> "none", t |-> "map", key |-> 0, value |-> 0, ret |-> 0,
           out |-> <<>>, cap |-> 0, again |-> FALSE, context |-> NoContext]

\* cap is the capacity the table had at the call; again tells that a
\* hashmap_clear or hashmap_free repeats the call made just before it;
\* context is the context object as a hashmap_iterate left it
Call(op, t, key, value, ret, out) ==
    [op |-> op, t |-> t, key |-> key, value |-> value, ret |-> ret,
     out |-> out, cap |-> maps[t].capacity,
     again |-> op \in {"clear", "free"} /\ last.op = op /\ last.t = t,
     context |-> NoContext]

\* struct Hashmap map = { 0 }, no call made
Init ==
    /\ mem = EmptyMem
    /\ maps = [t \in Tables |-> ZeroMap]
    /\ last = NoCall
    /\ shadow = [t \in Tables |-> NoShadow]

\* the calls stop once an assertion has failed (abort) or hashmap_panic was
\* entered
Running == ~mem.fault /\ ~mem.panic

Other(t) == IF t = "map" THEN "dest" ELSE "map"

\* an insert into table t requests no growth from a capacity above bound
GrowthBounded(t, bound) ==
    AboveLoadFactor(maps[t].buckets_filled, maps[t].capacity)
        => maps[t].capacity <= bound

\* the other table owns nothing
Alone(t) == maps[Other(t)].buckets = NULL

\* hashmap_init(&t) on a table in any state
InitOver(t) ==
    /\ Running
    /\ LET r == hashmap_init(mem, maps[t])
       IN  /\ mem' = r.mem
           /\ maps' = [maps EXCEPT ![t] = r.map]
    /\ last' = Call("init", t, 0, 0, 0, <<>>)
    /\ shadow' = [shadow EXCEPT ![t] = NoShadow]

\* hashmap_init(&t) on a table that owns nothing
InitCall(t) ==
    /\ maps[t].buckets = NULL
    /\ InitOver(t)

\* the call returned r: the heap and the struct are as it left them
Returned(t, r) ==
    /\ mem' = r.mem
    /\ maps' = [maps EXCEPT ![t] = r.map]

InsertReturned(t, key, value, r) ==
    /\ Returned(t, r)
    /\ last' = Call("insert", t, key, value, r.ret, <<>>)

InsertCall(t, key, value) ==
    /\ Running
    /\ InsertReturned(t, key, value, hashmap_insert(mem, maps[t], key, value))
    /\ shadow' = [shadow EXCEPT ![t][key] = <<value>>]

RemoveReturned(t, key, r) ==
    /\ Returned(t, r)
    /\ last' = Call("remove", t, key, 0, r.ret, r.out)

RemoveCall(t, key, out) ==
    /\ Running
    /\ RemoveReturned(t, key, hashmap_remove(mem, maps[t], key, out))
    /\ shadow' = [shadow EXCEPT ![t][key] = <<>>]

GrowCall(t) ==
    /\ Running
    /\ Returned(t, hashmap_grow(mem, maps[t]))
    /\ last' = Call("grow", t, 0, 0, 0, <<>>)
    /\ UNCHANGED shadow

\* the call records in value the size the table had
ClearCall(t) ==
    /\ Running
    /\ LET r == hashmap_clear(mem, maps[t])
       IN  /\ mem' = r.mem
           /\ maps' = [maps EXCEPT ![t] = r.map]
    /\ last' = Call("clear", t, 0, maps[t].size, 0, <<>>)
    /\ shadow' = [shadow EXCEPT ![t] = NoShadow]

FreeCall(t) ==
    /\ Running
    /\ LET r == hashmap_free(mem, maps[t])
       IN  /\ mem' = r.mem
           /\ maps' = [maps EXCEPT ![t] = r.map]
    /\ last' = Call("free", t, 0, 0, 0, <<>>)
    /\ shadow' = [shadow EXCEPT ![t] = NoShadow]

\* hashmap_duplicate(&dest, &src) into any dest
DuplicateOver(dest, src) ==
    /\ Running
    /\ dest /= src
    /\ LET r == hashmap_duplicate(mem, maps[dest], maps[src])
       IN  /\ mem' = r.mem
           /\ maps' = [maps EXCEPT ![dest] = r.dest]
    /\ last' = Call("duplicate", dest, 0, 0, 0, <<>>)
    /\ shadow' = [shadow EXCEPT ![dest] = shadow[src]]

\* hashmap_duplicate(&dest, &src) into a dest that owns nothing
DuplicateCall(dest, src) ==
    /\ maps[dest].buckets = NULL
    /\ DuplicateOver(dest, src)

\* map.iteration_callback = callback, assigned by the caller
SetCallback(t, callback) ==
    /\ Running
    /\ maps' = [maps EXCEPT ![t].iteration_callback = callback]
    /\ last' = Call("callback", t, 0, callback, 0, <<>>)
    /\ UNCHANGED <<mem, shadow>>

\* the context object a caller passes, its counter at count
NewContext(count) == [count |-> count, calls |-> <<>>]

IterateReturned(t, count, r) ==
    /\ mem' = r.mem
    /\ last' = [Call("iterate", t, 0, count, 0, <<>>)
                    EXCEPT !.context = r.context]

\* hashmap_iterate(&t, &counter) with the counter at count
IterateCall(t, count) ==
    /\ Running
    /\ IterateReturned(t, count,
                       hashmap_iterate(mem, maps[t], NewContext(count)))
    /\ UNCHANGED <<maps, shadow>>

Next ==
    \/ Alone("map") /\ InitCall("map")
    \/ \E key \in MainKeys, value \in Values :
           Alone("map") /\ GrowthBounded("map", MaxCapacity)
           /\ InsertCall("map", key, value)
    \/ \E key \in MainKeys, out \in {<<>>, <<OutInit>>} :
           Alone("map") /\ RemoveCall("map", key, out)
    \/ Alone("map") /\ maps["map"].capacity <= MaxCapacity /\ GrowCall("map")
    \/ Alone("map") /\ ClearCall("map")
    \/ \E t \in Tables : FreeCall(t)
    \/ \E t \in Tables : DuplicateCall(t, Other(t))

Spec == Init /\ [][Next]_vars

(***************************************************************************)
(* The loading caller (SpecLoad): hashmap_init on a fresh table, then      *)
(* inserts only.  New keys arrive in the order of LoadOrder, any of them   *)
(* may be skipped, and the key inserted last may be inserted again.        *)
(***************************************************************************)
Stored(t) == {k \in AllKeys : shadow[t][k] /= <<>>}

Position(seq, key) == CHOOSE i \in 1..Len(seq) : seq[i] = key

LoadInit ==
    /\ last.op = "none"
    /\ InitCall("map")

LoadInsert(key, value) ==
    /\ maps["map"].buckets /= NULL
    /\ \A k \in Stored("map") :
           Position(LoadOrder, k) <= Position(LoadOrder, key)
    /\ InsertCall("map", key, value)

NextLoad ==
    \/ LoadInit
    \/ \E key \in Range(LoadOrder), value \in Values : LoadInsert(key, value)

SpecLoad == Init /\ [][NextLoad]_vars

(***************************************************************************)
(* The chaining caller (SpecChain): inserts the keys of ChainOrder in      *)
(* order, with the values 1, 2, 1, 2, ..., into a table that starts empty, *)
(* and calls hashmap_grow at any time.                                     *)
(***************************************************************************)
ChainInsert ==
    /\ maps["map"].size < Len(ChainOrder)
    /\ GrowthBounded("map", MaxChainCapacity)
    /\ InsertCall("map", ChainOrder[maps["map"].size + 1],
                  1 + (maps["map"].size % 2))

ChainGrow ==
    /\ maps["map"].capacity <= MaxChainCapacity
    /\ GrowCall("map")

NextChain ==
    \/ ChainInsert
    \/ ChainGrow

SpecChain == Init /\ [][NextChain]_vars

(***************************************************************************)
(* The overflow caller (SpecOverflow), after test_grow_overflow1 and       *)
(* test_grow_overflow2: on a table of the default capacity that holds any  *)
(* entries and any callback, it assigns to map.capacity a capacity from    *)
(* which a growth would overflow, calls hashmap_grow, and assigns the      *)
(* default capacity back before any other call.                            *)
(***************************************************************************)
\* the capacity whose next power of two wraps around the width of size_t
WrapCapacity == (SIZE_MAX \div 2) + 1

\* the smallest capacity whose next power of two, as a count of node
\* pointers, exceeds the largest size_t
ByteOverflowCapacity == ((SIZE_MAX \div SIZEOF_NODE_PTR) + 1) \div 2

OverflowCapacities == {WrapCapacity, ByteOverflowCapacity}

Callbacks == {NULL, USER_CALLBACK, BREAK_CALLBACK}

\* map.capacity = capacity, assigned by the caller
SetCapacity(t, capacity) ==
    /\ Running
    /\ maps[t].buckets /= NULL
    /\ maps' = [maps EXCEPT ![t].capacity = capacity]
    /\ last' = Call("capacity", t, 0, capacity, 0, <<>>)
    /\ UNCHANGED <<mem, shadow>>

OverflowInit ==
    /\ last.op = "none"
    /\ InitCall("map")

OverflowInsert(key, value) ==
    /\ maps["map"].capacity = HASHMAP_DEFAULT_CAPACITY
    /\ GrowthBounded("map", 0)
    /\ InsertCall("map", key, value)

OverflowSetCallback(callback) ==
    /\ maps["map"].capacity = HASHMAP_DEFAULT_CAPACITY
    /\ SetCallback("map", callback)

OverflowSetCapacity(capacity) ==
    /\ maps["map"].capacity = HASHMAP_DEFAULT_CAPACITY
    /\ SetCapacity("map", capacity)

OverflowGrow ==
    /\ maps["map"].capacity \in OverflowCapacities
    /\ GrowCall("map")

\* "Back to normal capacity"
OverflowRestore ==
    /\ maps["map"].capacity \in OverflowCapacities
    /\ SetCapacity("map", HASHMAP_DEFAULT_CAPACITY)

OverflowFree ==
    /\ maps["map"].capacity = HASHMAP_DEFAULT_CAPACITY
    /\ FreeCall("map")

NextOverflow ==
    \/ OverflowInit
    \/ \E key \in MainKeys, value \in Values : OverflowInsert(key, value)
    \/ \E callback \in Callbacks : OverflowSetCallback(callback)
    \/ \E capacity \in OverflowCapacities : OverflowSetCapacity(capacity)
    \/ OverflowGrow
    \/ OverflowRestore
    \/ OverflowFree

SpecOverflow == Init /\ [][NextOverflow]_vars

(***************************************************************************)
(* The iterating caller (SpecIter): every operation on the one table map,  *)
(* in any order, with any of the callbacks assigned to                     *)
(* map.iteration_callback at any time, also before the table is allocated  *)
(* (test_iterate_from_almost_zero), and hashmap_iterate with a counter     *)
(* that starts anywhere up to TEST_ITERATIONS_BREAK.                       *)
(***************************************************************************)
IterInsert(key, value) ==
    /\ GrowthBounded("map", MaxCapacity)
    /\ InsertCall("map", key, value)

IterGrow ==
    /\ maps["map"].capacity <= MaxCapacity
    /\ GrowCall("map")

NextIter ==
    \/ InitCall("map")
    \/ \E callback \in Callbacks : SetCallback("map", callback)
    \/ \E key \in MainKeys, value \in Values : IterInsert(key, value)
    \/ \E key \in MainKeys : RemoveCall("map", key, <<>>)
    \/ IterGrow
    \/ \E count \in 0..TEST_ITERATIONS_BREAK : IterateCall("map", count)
    \/ ClearCall("map")
    \/ FreeCall("map")

SpecIter == Init /\ [][NextIter]_vars

(***************************************************************************)
(* The copying caller (SpecCopy), after test_duplicate_to_zero: while dest *)
(* owns nothing it fills map with new keys, assigns a callback, grows map  *)
(* and duplicates it into dest; then it calls insert, remove, grow and     *)
(* clear on one of the two tables, dest or map, and ends with the          *)
(* hashmap_free of that table.  At any time it may duplicate a table that  *)
(* is not allocated into the other one (test_duplicate_from_zero).         *)
(***************************************************************************)
Live(t) == maps[t].buckets /= NULL

\* two keys that share a bucket at capacity 8 and not at capacity 16
CopyKeys == {5, 13}

BothLive == Live("map") /\ Live("dest")

\* after the duplication the caller changes one of the two tables only:
\* the table of its first call
Changing(t) == BothLive /\ (last.op = "duplicate" \/ last.t = t)

\* map is allocated, dest owns nothing, and no table was freed: the caller
\* ends with the hashmap_free of either table
Building == Live("map") /\ Alone("map") /\ last.op /= "free"

\* no call of the library was made yet
Fresh == last.op \in {"none", "callback"}

CopyInit ==
    /\ Fresh
    /\ InitCall("map")

CopySetCallback(callback) ==
    /\ Building \/ Fresh
    /\ SetCallback("map", callback)

CopyBuildInsert(key, value) ==
    /\ Building
    /\ shadow["map"][key] = <<>>
    /\ InsertCall("map", key, value)

CopyBuildGrow ==
    /\ Building
    /\ maps["map"].capacity <= MaxCapacity
    /\ GrowCall("map")

CopyDuplicate ==
    /\ Building
    /\ DuplicateCall("dest", "map")

CopyInsert(t, key, value) ==
    /\ Changing(t)
    /\ GrowthBounded(t, MaxCapacity)
    /\ InsertCall(t, key, value)

CopyRemove(t, key) ==
    /\ Changing(t)
    /\ RemoveCall(t, key, <<>>)

CopyGrow(t) ==
    /\ Changing(t)
    /\ maps[t].capacity <= MaxCapacity
    /\ GrowCall(t)

CopyClear(t) ==
    /\ Changing(t)
    /\ ClearCall(t)

CopyFree(t) ==
    /\ Changing(t)
    /\ FreeCall(t)

\* hashmap_duplicate(&dest, &src) from a src that was never allocated or
\* was freed, into a dest that holds anything
CopyFromEmpty(dest) ==
    /\ ~Live(Other(dest))
    /\ last.op /= "duplicate"
    /\ DuplicateOver(dest, Other(dest))

NextCopy ==
    \/ CopyInit
    \/ \E callback \in {NULL, USER_CALLBACK} : CopySetCallback(callback)
    \/ \E key \in CopyKeys, value \in Values : CopyBuildInsert(key, value)
    \/ CopyBuildGrow
    \/ CopyDuplicate
    \/ \E t \in Tables, key \in CopyKeys, value \in Values :
           CopyInsert(t, key, value)
    \/ \E t \in Tables, key \in CopyKeys : CopyRemove(t, key)
    \/ \E t \in Tables : CopyGrow(t)
    \/ \E t \in Tables : CopyClear(t)
    \/ \E t \in Tables : CopyFree(t)
    \/ \E t \in Tables : CopyFromEmpty(t)

SpecCopy == Init /\ [][NextCopy]_vars

(***************************************************************************)
(* The initializing caller (SpecInit), after test_init_from_zero and       *)
(* test_init_from_garbage: hashmap_init on a table in any state - all      *)
(* zero, all garbage, or allocated with entries and a callback - with      *)
(* inserts, growths, callback assignments and hashmap_free between the     *)
(* calls.  A table of garbage is given to hashmap_init only, and a         *)
(* hashmap_init of an allocated table is the last call made.               *)
(***************************************************************************)
\* the fields of get_garbage_map(): 0xDEADBEEF, truncated to size_t
GARBAGE == 48879

GarbageMap == [buckets |-> GARBAGE, iteration_callback |-> GARBAGE,
               size |-> GARBAGE, capacity |-> GARBAGE,
               buckets_filled |-> GARBAGE]

\* the table is in a state the operations accept: empty or allocated
Valid(t) == maps[t].buckets = NULL \/ maps[t].buckets \in DOMAIN mem.arr

\* the call made last was a hashmap_init of an allocated table, which ends
\* the calls of this caller
Overwritten == last.op = "init" /\ last.cap \notin {0, GARBAGE}

\* Hashmap map = get_garbage_map()
SetGarbage(t) ==
    /\ Running
    /\ ~Overwritten
    /\ maps[t].buckets = NULL
    /\ maps' = [maps EXCEPT ![t] = GarbageMap]
    /\ last' = Call("garbage", t, 0, 0, 0, <<>>)
    /\ UNCHANGED <<mem, shadow>>

InitAny ==
    /\ ~Overwritten
    /\ InitOver("map")

InitSetCallback(callback) ==
    /\ Valid("map") /\ ~Overwritten
    /\ SetCallback("map", callback)

InitInsert(key, value) ==
    /\ Valid("map") /\ ~Overwritten
    /\ GrowthBounded("map", MaxCapacity)
    /\ InsertCall("map", key, value)

InitGrow ==
    /\ Valid("map") /\ ~Overwritten
    /\ maps["map"].capacity <= MaxCapacity
    /\ GrowCall("map")

InitFree ==
    /\ Valid("map") /\ ~Overwritten
    /\ FreeCall("map")

NextInit ==
    \/ SetGarbage("map")
    \/ InitAny
    \/ \E callback \in Callbacks : InitSetCallback(callback)
    \/ \E key \in MainKeys, value \in Values : InitInsert(key, value)
    \/ InitGrow
    \/ InitFree

SpecInit == Init /\ [][NextInit]_vars

(***************************************************************************)
(* Properties.  Get(t, k) is what hashmap_get(&t, k, &out) returns and     *)
(* leaves in out in the current state, Get1(t, k) the same in the next     *)
(* state of a step.                                                        *)
(***************************************************************************)
Get(t, k) == hashmap_get(mem, maps[t], k, <<OutInit>>)

Get1(t, k) == hashmap_get(mem', maps'[t], k, <<OutInit>>)

Found(v) == [ret |-> 1, out |-> <<v>>]

NotFound == [ret |-> 0, out |-> <<OutInit>>]

IsPowerOfTwo(n) == \E i \in 0..15 : n = 2 ^ i

\* the nodes reachable from head through next, added to seen
RECURSIVE ChainNodes(_, _, _)
ChainNodes(m, head, seen) ==
    IF head = NULL \/ head \in seen \/ head \notin DOMAIN m.node THEN seen
    ELSE ChainNodes(m, m.node[head].next, seen \cup {head})

BucketIndexes(t) == 0..(maps[t].capacity - 1)

\* the chain nodes reachable from the buckets of table t
Nodes(t) ==
    IF maps[t].buckets = NULL THEN {}
    ELSE UNION {ChainNodes(mem, Bucket(mem, maps[t], i), {}) :
                    i \in BucketIndexes(t)}

FilledBuckets(t) ==
    IF maps[t].buckets = NULL THEN {}
    ELSE {i \in BucketIndexes(t) : Bucket(mem, maps[t], i) /= NULL}

\* C1 (round trip): after any sequence of inserts on a table, with every
\* growth those inserts trigger, hashmap_get finds every inserted key and
\* yields the value of the most recent insert of that key.
C1_RoundTrip ==
    \A k \in AllKeys :
        shadow["map"][k] /= <<>> => Get("map", k) = Found(shadow["map"][k][1])

\* nine keys inserted, a growth triggered on the way, the last key
\* overwritten with another value
C1_Witness ==
    /\ maps["map"].capacity = 16
    /\ maps["map"].size = 9
    /\ last.op = "insert" /\ last.ret = 1 /\ last.value = 2
    /\ shadow["map"][0] = <<1>>
    /\ Get("map", last.key) = Found(2)

\* C2 (overwrite): an insert of a key the table holds returns 1, makes
\* hashmap_get yield the new value and leaves size unchanged; an insert of a
\* key the table does not hold returns 0 and increases size by exactly 1.
C2_Overwrite ==
    [][last'.op = "insert" =>
        LET t == last'.t
            k == last'.key
        IN  /\ Get1(t, k) = Found(last'.value)
            /\ IF Get(t, k).ret = 1
               THEN last'.ret = 1 /\ maps'[t].size = maps[t].size
               ELSE last'.ret = 0 /\ maps'[t].size = maps[t].size + 1]_vars

\* a key in a chain of two was overwritten with the other value
C2_Witness ==
    /\ last.op = "insert" /\ last.ret = 1 /\ last.key = 13 /\ last.value = 2
    /\ shadow["map"][5] = <<1>>
    /\ maps["map"].capacity = 8
    /\ maps["map"].size = 3
    /\ Get("map", 13) = Found(2)

\* C3 (remove of a present key): hashmap_remove of a key the table holds with
\* value v returns 1, stores v in out when out is not NULL, decreases size by
\* exactly 1, and afterwards hashmap_get does not find the key.
C3_RemovePresent ==
    [][(last'.op = "remove" /\ Get(last'.t, last'.key).ret = 1) =>
        LET t == last'.t
            k == last'.key
        IN  /\ last'.ret = 1
            /\ last'.out \in {<<>>, Get(t, k).out}
            /\ maps'[t].size = maps[t].size - 1
            /\ Get1(t, k) = NotFound]_vars

\* the only key of the table was removed with a non-NULL out: size is 0
C3_Witness ==
    /\ last.op = "remove" /\ last.ret = 1 /\ last.out = <<2>>
    /\ maps["map"].buckets /= NULL
    /\ maps["map"].size = 0
    /\ Get("map", last.key) = NotFound

\* C4 (growth preserves content): a growth, by a direct hashmap_grow or
\* inside an insert, leaves every key that was retrievable retrievable with
\* the same value, makes no other key retrievable (the key of the insert
\* aside) and does not change size (the entry of the insert aside).
C4_GrowthPreservesContent ==
    [][(\/ last'.op = "grow"
        \/ last'.op = "insert"
           /\ maps'["map"].capacity /= maps["map"].capacity) =>
        /\ \A k \in AllKeys :
               \/ last'.op = "insert" /\ k = last'.key
               \/ Get1("map", k) = Get("map", k)
        /\ maps'["map"].size =
               maps["map"].size
               + (IF last'.op = "insert" /\ last'.ret = 0 THEN 1 ELSE 0)]_vars

\* a direct growth of a table of capacity 16 that holds ten entries or more
C4_Witness ==
    /\ last.op = "grow" /\ last.cap = 16
    /\ maps["map"].capacity = 32
    /\ maps["map"].size >= 10
    /\ Get("map", 30) = Found(1)
    /\ Get("map", 14) = Found(2)
    /\ Get("map", 26) = NotFound

\* C5 (capacity invariant): whenever a table is allocated, its capacity is a
\* power of two greater than zero and buckets_filled <= capacity.
C5_CapacityInvariant ==
    \A t \in Tables :
        maps[t].buckets /= NULL =>
            /\ maps[t].capacity > 0
            /\ IsPowerOfTwo(maps[t].capacity)
            /\ maps[t].buckets_filled <= maps[t].capacity

\* a grown table with three occupied buckets and its duplicate
C5_Witness ==
    /\ last.op = "duplicate"
    /\ maps["map"].capacity = 16 /\ maps["map"].buckets_filled = 3
    /\ maps["dest"].buckets /= NULL
    /\ maps["dest"].capacity = 16 /\ maps["dest"].buckets_filled = 3

\* C6 (empty-state invariant): capacity = 0 exactly when the bucket array is
\* absent, size and buckets_filled are 0 then, and no assertion has failed
\* nor would the entry assertion of the next call fail.
C6_EmptyStateInvariant ==
    /\ ~mem.fault
    /\ \A t \in Tables :
           /\ maps[t].capacity = 0 <=> maps[t].buckets = NULL
           /\ maps[t].buckets = NULL =>
                  maps[t].size = 0 /\ maps[t].buckets_filled = 0
           /\ ~hashmap_assert(mem, maps[t]).fault

\* a table that held three entries at capacity 16 has been freed
C6_Witness ==
    /\ last.op = "free" /\ last.t = "map" /\ last.cap = 16
    /\ maps["map"] = ZeroMap
    /\ maps["dest"].size = 3
    /\ ~mem.fault

\* C7 (counter exactness): size is the number of chain nodes reachable from
\* the buckets and the number of keys inserted and not removed, cleared or
\* freed since; buckets_filled is the number of non-empty buckets; hence
\* size >= buckets_filled.
C7_CounterExactness ==
    \A t \in Tables :
        /\ maps[t].size = Cardinality(Nodes(t))
        /\ maps[t].size = Cardinality(Stored(t))
        /\ {mem.node[n].key : n \in Nodes(t)} = Stored(t)
        /\ maps[t].buckets_filled = Cardinality(FilledBuckets(t))
        /\ maps[t].size >= maps[t].buckets_filled

\* one key removed from a chain of two: two entries left in two buckets
C7_Witness ==
    /\ last.op = "remove" /\ last.ret = 1 /\ last.key = 13
    /\ maps["map"].size = 2
    /\ maps["map"].buckets_filled = 2
    /\ Cardinality(Nodes("map")) = 2

\* C8 (growth doubles): whenever a growth takes effect, by a direct
\* hashmap_grow or inside an insert, the capacity after the call is exactly
\* twice the capacity before the call.
C8_GrowthDoubles ==
    [][(/\ last'.op \in {"grow", "insert"}
        /\ maps["map"].capacity /= 0
        /\ maps'["map"].capacity /= maps["map"].capacity) =>
        maps'["map"].capacity = 2 * maps["map"].capacity]_vars

C10_NinthInsertGrows ==
    maps["map"].buckets /= NULL =>
        /\ maps["map"].size <= 8 => maps["map"].capacity = 8
        /\ maps["map"].size = 9 => maps["map"].capacity = 16

\* the table placed holds the entry of the insert call on top of the table
\* grown, which has capacity 16
PlacedAfter(grown, placed, call) ==
    /\ grown.map.capacity = 16
    /\ placed.size = grown.map.size + 1 - call.ret
    /\ hashmap_get(grown.mem, grown.map, call.key, <<OutInit>>).ret = call.ret

\* C10 amended: from a freshly initialized table every insert called with at
\* most 6 occupied buckets is placed at capacity 8, so the first 7 inserts of
\* distinct keys are; the growth to 16 is triggered by the first insert called
\* with 7 occupied buckets, which is the 8th or the 9th insert of a distinct
\* key or an insert that overwrites the 7th or the 8th, and is complete before
\* that key is placed.
C10_GrowthAtSevenBuckets ==
    [][last'.op = "insert" =>
        /\ maps["map"].capacity = 8 /\ maps["map"].buckets_filled <= 6 =>
               maps'["map"].capacity = 8
        /\ maps["map"].size <= 6 =>
               maps["map"].capacity = 8 /\ maps'["map"].capacity = 8
        /\ maps["map"].capacity = 8 /\ maps["map"].buckets_filled = 7 =>
               /\ maps["map"].size \in {7, 8}
               /\ maps'["map"].capacity = 16
               /\ Get1("map", last'.key) = Found(last'.value)
               /\ PlacedAfter(hashmap_grow(mem, maps["map"]), maps'["map"],
                              last')]_vars

\* seven keys in seven buckets: the 8th insert of a distinct key was placed
\* at capacity 16
C10_Witness ==
    /\ last.op = "insert" /\ last.ret = 0 /\ last.cap = 8
    /\ maps["map"].capacity = 16
    /\ maps["map"].size = 8

\* C11 (growth overflow is a silent no-op): a hashmap_grow from a capacity
\* whose next power of two wraps around the width of size_t, or whose new
\* bucket array would exceed the largest size_t, leaves capacity, size,
\* buckets_filled, the bucket array pointer, the callback, every bucket and
\* every node as they were, allocates nothing and fails no assertion.
C11_GrowthOverflowNoOp ==
    [][(last'.op = "grow" /\ maps["map"].capacity \in OverflowCapacities) =>
        /\ maps' = maps
        /\ mem' = mem
        /\ ~mem'.fault]_vars

\* hashmap_grow returned from the capacity that wraps, on a table that held
\* three entries and a callback
C11_Witness ==
    /\ last.op = "grow" /\ last.cap = WrapCapacity
    /\ maps["map"].capacity = WrapCapacity
    /\ maps["map"].size = 3
    /\ maps["map"].buckets /= NULL
    /\ maps["map"].iteration_callback = USER_CALLBACK
    /\ ~mem.fault

\* C12 (growth restores the callback): when hashmap_grow returns, called
\* directly or from hashmap_insert, on any table, a never-allocated table
\* whose callback field was assigned included, iteration_callback is the
\* callback registered before the call.
C12_GrowthRestoresCallback ==
    [][last'.op \in {"grow", "insert"} =>
        maps'["map"].iteration_callback = maps["map"].iteration_callback]_vars

\* the entries of table t, as <<key, value>> pairs
Entries(t) ==
    {<<k, Get(t, k).out[1]>> : k \in {j \in AllKeys : Get(t, j).ret = 1}}

\* the <<key, value>> pairs of the invocations a hashmap_iterate made
Visited(calls) == [i \in 1..Len(calls) |-> <<calls[i][1], calls[i][2]>>]

\* every invocation listed in calls returned 1
AllContinued(calls) == \A i \in 1..Len(calls) : calls[i][3] = 1

IterationOrder(t) ==
    Visited(hashmap_iterate(
                mem, [maps[t] EXCEPT !.iteration_callback = USER_CALLBACK],
                NewContext(0)).context.calls)

Min(a, b) == IF a <= b THEN a ELSE b

C15_IterateNoWork ==
    [][(/\ last'.op = "iterate"
        /\ \/ maps["map"].iteration_callback = NULL
           \/ maps["map"].buckets = NULL) =>
        /\ last'.context = NewContext(last'.value)
        /\ maps' = maps
        /\ mem' = mem
        /\ ~mem'.fault]_vars

\* a grown table of three entries with no callback registered was iterated
C15_Witness ==
    /\ last.op = "iterate"
    /\ maps["map"].iteration_callback = NULL
    /\ maps["map"].capacity = 16 /\ maps["map"].size = 3
    /\ last.context = NewContext(last.value)
    /\ ~mem.fault

\* the chain nodes reachable from the buckets of the table map in heap m
NodesOf(m, map) ==
    IF map.buckets = NULL THEN {}
    ELSE UNION {ChainNodes(m, Bucket(m, map, i), {}) :
                    i \in 0..(map.capacity - 1)}

\* what the table map owns in heap m: its bucket array and its chain nodes
Owned(m, map) ==
    [arr |-> IF map.buckets = NULL THEN <<>> ELSE m.arr[map.buckets],
     node |-> [n \in NodesOf(m, map) |-> m.node[n]]]

\* C16 (duplicate yields an equal, independent copy): hashmap_duplicate of
\* an allocated src gives dest the key-to-value mapping, size, capacity,
\* buckets_filled and callback of src with a bucket array and nodes of its
\* own, and leaves src unchanged; every later insert, remove, clear, grow
\* or free on one of the two tables leaves the struct, the bucket array,
\* the nodes and the entries of the other one unchanged, and the two
\* tables never share a node.
C16_DuplicateIndependent ==
    [][/\ (last'.op = "duplicate" /\ last'.t = "dest" /\ Live("map")) =>
              /\ \A k \in MainKeys : Get1("dest", k) = Get("map", k)
              /\ maps'["dest"] =
                     [maps["map"] EXCEPT !.buckets = maps'["dest"].buckets]
              /\ maps'["dest"].buckets \notin {NULL, maps["map"].buckets}
              /\ maps'["map"] = maps["map"]
              /\ Owned(mem', maps'["map"]) = Owned(mem, maps["map"])
       /\ (BothLive
           /\ last'.op \in {"insert", "remove", "clear", "grow", "free"}) =>
              LET o == Other(last'.t)
              IN  /\ maps'[o] = maps[o]
                  /\ Owned(mem', maps'[o]) = Owned(mem, maps[o])
                  /\ \A k \in MainKeys : Get1(o, k) = Get(o, k)
       /\ (maps'["map"].buckets /= NULL /\ maps'["dest"].buckets /= NULL) =>
              /\ maps'["map"].buckets /= maps'["dest"].buckets
              /\ NodesOf(mem', maps'["map"])
                     \cap NodesOf(mem', maps'["dest"]) = {}
       /\ ~mem'.fault]_vars

\* a grown table of two entries with a callback was duplicated, and one of
\* the entries was then removed from the copy: the original still holds it
C16_Witness ==
    /\ last.op = "remove" /\ last.t = "dest" /\ last.ret = 1 /\ last.key = 5
    /\ maps["map"].capacity = 16 /\ maps["dest"].capacity = 16
    /\ maps["map"].size = 2 /\ maps["dest"].size = 1
    /\ maps["map"].iteration_callback = USER_CALLBACK
    /\ maps["dest"].iteration_callback = USER_CALLBACK
    /\ Get("map", 5) = Found(2)
    /\ Get("dest", 5) = NotFound
    /\ Get("dest", 13) = Get("map", 13)

\* C17 (duplicate from an empty source): hashmap_duplicate from a src that
\* was never allocated (its callback assigned or not) or was freed leaves
\* dest in the empty state, all fields zero, whatever dest held, leaves src
\* unchanged and fails no assertion.
C17_DuplicateFromEmpty ==
    [][(last'.op = "duplicate" /\ ~Live(Other(last'.t))) =>
        /\ maps'[last'.t] = ZeroMap
        /\ maps'[Other(last'.t)] = maps[Other(last'.t)]
        /\ \A k \in MainKeys : Get1(last'.t, k) = NotFound
        /\ ~mem'.fault]_vars

\* a grown table that held two entries was overwritten by the duplication
\* of a table that owns nothing: its bucket array and nodes stay allocated
C17_Witness ==
    /\ last.op = "duplicate" /\ last.cap = 16
    /\ shadow[Other(last.t)] = NoShadow
    /\ maps[last.t] = ZeroMap
    /\ maps[Other(last.t)] = ZeroMap
    /\ Cardinality(DOMAIN mem.node) = 2
    /\ ~mem.fault

\* C18 (clear removes all entries but keeps the allocation): after
\* hashmap_clear on an allocated table, grown or not, size and
\* buckets_filled are 0, every bucket is empty, no key is found and every
\* chain node is released, while capacity, the bucket array and the
\* registered callback are those of before the call.
C18_ClearKeepsAllocation ==
    [][(last'.op = "clear" /\ maps["map"].buckets /= NULL) =>
        /\ ~mem'.fault
        /\ maps'["map"] = [maps["map"] EXCEPT !.size = 0,
                                               !.buckets_filled = 0]
        /\ DOMAIN mem'.arr = {maps["map"].buckets}
        /\ \A i \in BucketIndexes("map") :
               Bucket(mem', maps'["map"], i) = NULL
        /\ mem'.node = <<>>
        /\ \A k \in AllKeys : Get1("map", k) = NotFound]_vars

\* a table grown to capacity 16, with a callback, was cleared of three
\* entries
C18_Witness ==
    /\ last.op = "clear" /\ last.value = 3 /\ last.cap = 16
    /\ maps["map"].capacity = 16
    /\ maps["map"].iteration_callback = BREAK_CALLBACK
    /\ maps["map"].size = 0 /\ maps["map"].buckets_filled = 0
    /\ mem.node = <<>>
    /\ mem.arr[maps["map"].buckets] = [i \in 1..16 |-> NULL]

\* C19 (idempotent clear): a hashmap_clear that follows a hashmap_clear
\* changes nothing: size and buckets_filled stay 0 and capacity, the bucket
\* array and the heap are as the first one left them; on a never-allocated
\* table hashmap_clear changes no field and allocates nothing.
C19_ClearIdempotent ==
    [][(/\ last'.op = "clear"
        /\ last'.again \/ maps["map"].buckets = NULL) =>
        /\ maps["map"].size = 0 /\ maps["map"].buckets_filled = 0
        /\ maps' = maps
        /\ mem' = mem
        /\ ~mem'.fault]_vars

\* a grown table was cleared twice in a row
C19_Witness ==
    /\ last.op = "clear" /\ last.again /\ last.cap = 16
    /\ maps["map"].capacity = 16
    /\ maps["map"].size = 0 /\ maps["map"].buckets_filled = 0
    /\ maps["map"].iteration_callback = USER_CALLBACK
    /\ ~mem.fault

\* C20 (free returns to the empty state and is idempotent): hashmap_free
\* on a table in any state leaves every field zero and nothing of the table
\* allocated; a hashmap_free that follows a hashmap_free, or is called on a
\* never-allocated table, releases nothing, and no hashmap_free fails an
\* assertion or releases a block twice.
C20_FreeIdempotent ==
    [][last'.op = "free" =>
        /\ maps'["map"] = ZeroMap
        /\ mem' = EmptyMem
        /\ (last'.again \/ maps["map"].buckets = NULL) => mem' = mem
        /\ last'.again => maps' = maps]_vars

\* a table was freed twice in a row
C20_Witness ==
    /\ last.op = "free" /\ last.again
    /\ maps["map"] = ZeroMap
    /\ mem = EmptyMem

\* C21 (init postcondition): after hashmap_init, whatever the fields of the
\* table held before (zeros, garbage, or an allocated table), the table has
\* a bucket array of its own, freshly allocated, of 8 empty buckets,
\* capacity 8, size 0, buckets_filled 0 and a NULL callback, and no
\* assertion has failed.
C21_InitPostcondition ==
    [][last'.op = "init" =>
        /\ maps'["map"] =
               [ZeroMap EXCEPT !.buckets = maps'["map"].buckets,
                               !.capacity = HASHMAP_DEFAULT_CAPACITY]
        /\ maps'["map"].buckets \in DOMAIN mem'.arr
        /\ maps'["map"].buckets \notin Allocated(mem)
        /\ mem'.arr[maps'["map"].buckets]
               = [i \in 1..HASHMAP_DEFAULT_CAPACITY |-> NULL]
        /\ \A k \in MainKeys : Get1("map", k) = NotFound
        /\ ~mem'.fault]_vars

\* hashmap_init returned on a table whose fields were all garbage
C21_Witness ==
    /\ last.op = "init" /\ last.cap = GARBAGE
    /\ maps["map"].capacity = HASHMAP_DEFAULT_CAPACITY
    /\ maps["map"].size = 0 /\ maps["map"].buckets_filled = 0
    /\ maps["map"].iteration_callback = NULL
    /\ maps["map"].buckets \in DOMAIN mem.arr

\* what hashmap_insert leaves of a table that was never touched
FreshInsert(key, value) == hashmap_insert(EmptyMem, ZeroMap, key, value)

\* C22 (lazy initialization and reuse): hashmap_insert on a table in the
\* empty state, never allocated or freed after any history, returns 0 and
\* leaves an allocated table of capacity 8 with size 1, buckets_filled 1 and
\* the key retrievable with its value; after a hashmap_free the result is
\* the very result of the insert on a table that was never touched.
C22_LazyInitAndReuse ==
    [][(last'.op = "insert" /\ maps["map"].buckets = NULL) =>
        /\ last'.ret = 0
        /\ maps'["map"].buckets \in DOMAIN mem'.arr
        /\ maps'["map"].capacity = HASHMAP_DEFAULT_CAPACITY
        /\ maps'["map"].size = 1
        /\ maps'["map"].buckets_filled = 1
        /\ Get1("map", last'.key) = Found(last'.value)
        /\ ~mem'.fault
        /\ mem = EmptyMem =>
               [mem |-> mem', map |-> maps'["map"], ret |-> last'.ret]
                   = FreshInsert(last'.key, last'.value)]_vars

\* an insert into a table that was not allocated: the bucket array and the
\* node of the entry are the two live blocks
C22_Witness ==
    /\ last.op = "insert" /\ last.cap = 0 /\ last.ret = 0
    /\ last.key = 13 /\ last.value = 2
    /\ maps["map"].capacity = HASHMAP_DEFAULT_CAPACITY
    /\ maps["map"].size = 1 /\ maps["map"].buckets_filled = 1
    /\ Get("map", 13) = Found(2)
    /\ Cardinality(Allocated(mem)) = 2

\* C23 (grow from the empty state): hashmap_grow on a table that is not
\* allocated initializes it and grows it: it leaves an allocated table of
\* capacity 16, twice the default capacity, with 16 empty buckets, size 0,
\* buckets_filled 0 and a NULL callback; the bucket array of the
\* initialization is released.
C23_GrowFromEmpty ==
    [][(last'.op = "grow" /\ maps["map"].buckets = NULL) =>
        /\ maps'["map"] =
               [ZeroMap EXCEPT !.buckets = maps'["map"].buckets,
                               !.capacity = 2 * HASHMAP_DEFAULT_CAPACITY]
        /\ DOMAIN mem'.arr = {maps'["map"].buckets}
        /\ mem'.arr[maps'["map"].buckets]
               = [i \in 1..(2 * HASHMAP_DEFAULT_CAPACITY) |-> NULL]
        /\ mem'.node = <<>>
        /\ ~mem'.fault]_vars

\* hashmap_grow returned on a table that was not allocated
C23_Witness ==
    /\ last.op = "grow" /\ last.cap = 0
    /\ maps["map"].capacity = 2 * HASHMAP_DEFAULT_CAPACITY
    /\ maps["map"].size = 0 /\ maps["map"].buckets_filled = 0
    /\ maps["map"].iteration_callback = NULL
    /\ maps["map"].buckets \in DOMAIN mem.arr

\* C24 (remove of an absent key is a no-op): hashmap_remove of a key the
\* table does not hold, on an allocated table or on one that is not
\* allocated, returns 0, stores nothing in out, and leaves size,
\* buckets_filled, capacity, the bucket array, every node and the heap
\* unchanged; a table that is not allocated stays so.
C24_RemoveAbsent ==
    [][(last'.op = "remove" /\ Get(last'.t, last'.key).ret = 0) =>
        /\ last'.ret = 0
        /\ last'.out \in {<<>>, <<OutInit>>}
        /\ maps' = maps
        /\ mem' = mem
        /\ ~mem'.fault]_vars

\* key 13 was not found in the chain that holds key 5, in a table of two
\* entries
C24_Witness ==
    /\ last.op = "remove" /\ last.ret = 0 /\ last.key = 13
    /\ last.out = <<OutInit>>
    /\ shadow["map"][5] /= <<>> /\ shadow["map"][1] /= <<>>
    /\ shadow["map"][13] = <<>>
    /\ maps["map"].size = 2 /\ maps["map"].buckets_filled = 2
    /\ Get("map", 5).ret = 1

NullOps == {"init", "grow", "insert", "remove", "get", "has", "size", "free",
            "iterate", "clear"}

ValueOps == {"insert", "remove", "get", "has"}

NullOutcomes(op, no_panic) ==
    CASE op = "init" -> hashmap_init_null(no_panic, mem)
      [] op = "grow" -> hashmap_grow_null(no_panic, mem)
      [] op = "insert" -> hashmap_insert_null(no_panic, mem)
      [] op = "remove" -> hashmap_remove_null(no_panic, mem)
      [] op = "get" -> hashmap_get_null(no_panic, mem)
      [] op = "has" -> hashmap_has_null(no_panic, mem)
      [] op = "size" -> hashmap_size_null(no_panic, mem)
      [] op = "free" -> hashmap_free_null(no_panic, mem)
      [] op = "iterate" -> hashmap_iterate_null(no_panic, mem)
      [] op = "clear" -> hashmap_clear_null(no_panic, mem)

\* the call op(NULL, ...) in a build with HASHMAP_NO_PANIC_ON_NULL = no_panic
NullCall(op, no_panic) ==
    /\ Running
    /\ \E r \in NullOutcomes(op, no_panic) :
           /\ mem' = r.mem
           /\ last' = [NoCall EXCEPT !.op = op, !.t = "null", !.ret = r.ret]
    /\ UNCHANGED <<maps, shadow>>

NullOrTable == {"null"} \cup Tables

\* hashmap_duplicate(dest, src) with a null dest, a null src or both; key
\* and value record whether dest and src were a table
NullDuplicate(dest, src, no_panic) ==
    /\ Running
    /\ "null" \in {dest, src}
    /\ \E r \in hashmap_duplicate_null(no_panic, mem) :
           /\ mem' = r.mem
           /\ last' = [NoCall EXCEPT !.op = "duplicate", !.t = "null",
                                     !.key = IF dest = "null" THEN 0 ELSE 1,
                                     !.value = IF src = "null" THEN 0 ELSE 1]
    /\ UNCHANGED <<maps, shadow>>

\* the calls of test_hashmap_pass_null_abort.c and of the tolerant tests
\* among ordinary calls on a table
NextNullBuild(no_panic) ==
    \/ InitCall("map")
    \/ \E key \in MainKeys, value \in Values :
           GrowthBounded("map", MaxCapacity) /\ InsertCall("map", key, value)
    \/ \E key \in MainKeys : RemoveCall("map", key, <<>>)
    \/ FreeCall("map")
    \/ \E op \in NullOps : NullCall(op, no_panic)
    \/ \E dest \in NullOrTable, src \in NullOrTable :
           NullDuplicate(dest, src, no_panic)

\* the default build
NextNull == NextNullBuild(HASHMAP_NO_PANIC_ON_NULL)

SpecNull == Init /\ [][NextNull]_vars

\* the build with HASHMAP_NO_PANIC_ON_NULL defined as 1
NextTolerant == NextNullBuild(NO_PANIC)

SpecTolerant == Init /\ [][NextTolerant]_vars

\* C25: in the default build every public operation given a null table
\* (duplicate: a null dest or a null src) ends in the panic handler and
\* does not return to its caller.
C25_NullPanics ==
    [][last'.t = "null" => mem'.panic]_vars

\* C26: with HASHMAP_NO_PANIC_ON_NULL enabled every operation given a null
\* table returns without panicking and without changing the heap or a
\* table, and insert, remove, get and has return 0.
C26_NullTolerated ==
    [][last'.t = "null"
       => /\ ~mem'.panic /\ ~mem'.fault
          /\ mem' = mem /\ maps' = maps
          /\ (last'.op \in ValueOps => last'.ret = 0)]_vars

(***************************************************************************)
(* The caller whose allocator fails (SpecOom), after                       *)
(* test_hashmap_out_of_mem.c: it inserts the keys of LoadOrder in order    *)
(* into a table that starts empty, initializes, grows and frees it, takes  *)
(* a copy of it that it frees before it changes the table again, and once, *)
(* at any time, it arranges that the allocator grants at most MaxLeft more *)
(* requests and reports failure from then on.                              *)
(***************************************************************************)
MaxLeft == 2

\* disabled_realloc = 1, n requests later
DisableRealloc(n) ==
    /\ Running
    /\ mem.left = NoLimit
    /\ mem' = [mem EXCEPT !.left = n]
    /\ last' = Call("disable", "map", 0, n, 0, <<>>)
    /\ UNCHANGED <<maps, shadow>>

OomInsert ==
    /\ Alone("map")
    /\ maps["map"].size < Len(LoadOrder)
    /\ GrowthBounded("map", MaxCapacity)
    /\ InsertCall("map", LoadOrder[maps["map"].size + 1], 1)

OomGrow ==
    /\ Alone("map")
    /\ maps["map"].capacity <= MaxCapacity
    /\ GrowCall("map")

NextOom ==
    \/ Alone("map") /\ InitCall("map")
    \/ OomInsert
    \/ OomGrow
    \/ DuplicateCall("dest", "map")
    \/ Alone("map") /\ FreeCall("map")
    \/ FreeCall("dest")
    \/ \E n \in 0..MaxLeft : DisableRealloc(n)

SpecOom == Init /\ [][NextOom]_vars

\* the operations that request memory
AllocatingOps == {"init", "insert", "grow", "duplicate"}

\* C27: whenever the allocator reports failure during init, insert (lazy
\* init, node creation or triggered growth), grow or duplicate, the
\* operation ends in the panic handler and does not return to its caller.
C27_AllocatorFailureFatal ==
    [][~mem.denied /\ mem'.denied
       => mem'.panic /\ last'.op \in AllocatingOps]_vars

\* an insert on a table of capacity 8 triggered a growth, and the
\* allocator failed while the growth was reinserting the entries
C27_Witness ==
    /\ mem.denied /\ mem.panic
    /\ last.op = "insert" /\ last.cap = HASHMAP_DEFAULT_CAPACITY
    /\ maps["map"].iteration_callback = GROW_INTERNAL

(***************************************************************************)
(* The overwriting caller (SpecOver): it fills dest, then fills map, with  *)
(* growths, and at any time calls hashmap_init on either table or          *)
(* hashmap_duplicate from one table into the other, whatever the           *)
(* destination holds.  A call that overwrote an allocated table is its     *)
(* last call.                                                              *)
(***************************************************************************)
\* the call made last was given a table that held an allocation to
\* initialize or to duplicate into
Leaking == last.op \in {"init", "duplicate"} /\ last.cap /= 0

\* dest is filled before map
Filling(t) == ~Leaking /\ (t = "dest" => maps["map"].buckets = NULL)

OverInsert(t, key, value) ==
    /\ Filling(t)
    /\ GrowthBounded(t, MaxCapacity)
    /\ InsertCall(t, key, value)

OverGrow(t) ==
    /\ Filling(t)
    /\ maps[t].capacity <= MaxCapacity
    /\ GrowCall(t)

NextOver ==
    \/ \E t \in Tables, key \in CopyKeys, value \in Values :
           OverInsert(t, key, value)
    \/ \E t \in Tables : OverGrow(t)
    \/ \E t \in Tables : ~Leaking /\ InitOver(t)
    \/ \E t \in Tables : ~Leaking /\ DuplicateOver(t, Other(t))

SpecOver == Init /\ [][NextOver]_vars

\* the addresses of what the table map owns in heap m
Blocks(m, map) ==
    IF map.buckets = NULL THEN {} ELSE {map.buckets} \cup NodesOf(m, map)

\* C28: hashmap_init of an allocated table, and hashmap_duplicate into an
\* allocated dest, overwrite the fields of the table and release nothing:
\* the bucket array and the chain nodes the table had stay allocated, with
\* their contents, and none of them is reachable from the table any more.
C28_OverwriteLeaks ==
    [][last'.op \in {"init", "duplicate"} /\ maps[last'.t].buckets /= NULL
       => /\ Blocks(mem, maps[last'.t]) \subseteq Allocated(mem')
          /\ Owned(mem', maps[last'.t]) = Owned(mem, maps[last'.t])
          /\ Blocks(mem, maps[last'.t])
                 \cap Blocks(mem', maps'[last'.t]) = {}
          /\ maps'[last'.t].buckets /= maps[last'.t].buckets
          /\ maps'[last'.t].size =
                 IF last'.op = "init" THEN 0 ELSE maps[Other(last'.t)].size
          /\ ~mem'.fault]_vars

\* hashmap_duplicate wrote a copy of one entry over a dest that held two:
\* the array and the two nodes dest had belong to no table
C28_Witness ==
    /\ last.op = "duplicate" /\ last.t = "dest" /\ last.cap /= 0
    /\ maps["dest"].size = 1
    /\ Cardinality(Allocated(mem) \ (Blocks(mem, maps["map"])
                                      \cup Blocks(mem, maps["dest"]))) = 3

\* C29: with no comparison and no hash function supplied two keys are the
\* same key exactly when their representations are byte-identical: an
\* insert overwrites exactly when the table holds a key of identical bytes,
\* it changes what no other key yields, and two distinct pointers that
\* reference equal content are held as two entries, each yielding the
\* value stored under it.
C29_RepresentationEquality ==
    /\ [][last'.op = "insert" =>
           LET t == last'.t
               k == last'.key
           IN  /\ (last'.ret = 1)
                      <=> (\E j \in MainKeys : /\ Get(t, j).ret = 1
                                               /\ KeyBytes(j) = KeyBytes(k))
               /\ \A j \in MainKeys \ {k} : Get1(t, j) = Get(t, j)
               /\ maps'[t].size = maps[t].size + 1 - last'.ret]_vars
    /\ [](\A t \in Tables, k1 \in MainKeys, k2 \in MainKeys :
              (/\ k1 /= k2
               /\ StringAt(k1) = StringAt(k2)
               /\ shadow[t][k1] /= <<>>
               /\ shadow[t][k2] /= <<>>)
              => /\ maps[t].size >= 2
                 /\ Get(t, k1) = Found(shadow[t][k1][1])
                 /\ Get(t, k2) = Found(shadow[t][k2][1]))

\* the pointers 5 and 13 reference equal content and share a bucket: 13
\* was inserted as a new key, and each yields its own value
C29_Witness ==
    /\ StringAt(5) = StringAt(13)
    /\ last.op = "insert" /\ last.key = 13 /\ last.ret = 0
    /\ maps["map"].capacity = 8
    /\ maps["map"].size = 2
    /\ hashmap_hash_index(maps["map"], 5) = hashmap_hash_index(maps["map"], 13)
    /\ Get("map", 5) = Found(1)
    /\ Get("map", 13) = Found(2)

\* the nodes of the chain of bucket i of table t
BucketNodes(t, i) == ChainNodes(mem, Bucket(mem, maps[t], i), {})

\* C30: in every reachable state no two nodes of a table hold keys that
\* compare equal and every node is in the bucket hash(key) & (capacity - 1)
\* of its table; every reinsertion of a growth is then a fresh key, and no
\* assertion, that of hashmap_grow_internal included, fails.
C30_UniqueAndPlaced ==
    /\ ~mem.fault
    /\ \A t \in Tables :
           /\ \A n1 \in Nodes(t), n2 \in Nodes(t) :
                  n1 /= n2 => hashmap_compare_keys(mem.node[n1].key,
                                                   mem.node[n2].key) /= 0
           /\ \A i \in BucketIndexes(t) :
                  maps[t].buckets /= NULL
                  => \A n \in BucketNodes(t, i) :
                         hashmap_hash_index(maps[t], mem.node[n].key) = i

\* a growth reinserted the chain of 5 and 13 into two buckets of the table
\* of capacity 16, next to the entry of key 1
C30_Witness ==
    /\ last.op = "grow" /\ last.cap = HASHMAP_DEFAULT_CAPACITY
    /\ maps["map"].capacity = 16
    /\ maps["map"].size = 3
    /\ hashmap_hash_index(maps["map"], 5) /= hashmap_hash_index(maps["map"], 13)
    /\ Cardinality(FilledBuckets("map")) = 3

\* the two overflow checks of hashmap_grow pass from this capacity
PassesOverflowChecks(capacity) ==
    /\ NextPowerOfTwo(capacity) >= capacity
    /\ NextPowerOfTwo(capacity) <= SIZE_MAX \div SIZEOF_NODE_PTR

\* the step calls hashmap_grow on table t: directly, or from a
\* hashmap_insert that finds the allocated table above the load factor
GrowthRequested(t) ==
    /\ last'.t = t
    /\ \/ last'.op = "grow"
       \/ /\ last'.op = "insert"
          /\ maps[t].buckets /= NULL
          /\ AboveLoadFactor(maps[t].buckets_filled, maps[t].capacity)

\* C31: whenever hashmap_grow passes the overflow checks the rehash gives
\* the fresh table the size of the source, the revert branch is not taken
\* and the swap happens: the table has a larger capacity and another
\* bucket array, the array it had is released, the size is the size it
\* had (plus the new key of the insert) and no assertion fails.
C31_GrowthNeverReverts ==
    [][\A t \in Tables :
           (GrowthRequested(t) /\ PassesOverflowChecks(maps[t].capacity))
           => /\ maps'[t].capacity > maps[t].capacity
              /\ maps'[t].buckets /= maps[t].buckets
              /\ maps[t].buckets \notin DOMAIN mem'.arr
              /\ maps'[t].size = maps[t].size
                     + (IF last'.op = "insert" THEN 1 - last'.ret ELSE 0)
              /\ ~mem'.fault]_vars

\* an insert into the table of capacity 16 with 13 occupied buckets and 26
\* entries triggered a growth, which swapped in a larger table
C31_Witness ==
    /\ last.op = "insert" /\ last.cap = 16
    /\ maps["map"].capacity > 16
    /\ maps["map"].size = 27
    /\ ~mem.fault

(***************************************************************************)
(* The ordering caller (SpecOrder): it initializes the table and registers *)
(* the callback that accepts every entry; then it inserts, overwrites and  *)
(* removes three keys that share one bucket at capacity 8, two of which    *)
(* share a bucket at capacity 16, in any order, grows the table and        *)
(* iterates.                                                               *)
(***************************************************************************)
OrderKeys == {30, 14, 54}

OrderInit ==
    /\ last.op = "none"
    /\ InitCall("map")

OrderSetCallback ==
    /\ last.op = "init"
    /\ SetCallback("map", USER_CALLBACK)

\* the table is set up: initialized, with the callback registered
Registered == maps["map"].iteration_callback = USER_CALLBACK

NextOrder ==
    \/ OrderInit
    \/ OrderSetCallback
    \/ \E key \in OrderKeys, value \in Values :
           /\ Registered
           /\ GrowthBounded("map", MaxCapacity)
           /\ InsertCall("map", key, value)
    \/ \E key \in OrderKeys : Registered /\ RemoveCall("map", key, <<>>)
    \/ /\ Registered
       /\ maps["map"].capacity <= MaxCapacity
       /\ GrowCall("map")
    \/ Registered /\ IterateCall("map", 0)

SpecOrder == Init /\ [][NextOrder]_vars

\* the keys of the invocations listed in calls, in order
VisitedKeys(calls) == [i \in 1..Len(calls) |-> calls[i][1]]

\* the keys of the chain that starts at head, in link order
RECURSIVE ChainKeys(_, _)
ChainKeys(m, head) ==
    IF head = NULL THEN <<>>
    ELSE <<m.node[head].key>> \o ChainKeys(m, m.node[head].next)

\* the keys of the buckets lo..hi-1 of the table map in heap m: bucket
\* after bucket in ascending index order, each chain in link order
RECURSIVE LinkOrder(_, _, _, _)
LinkOrder(m, map, lo, hi) ==
    IF hi <= lo THEN <<>>
    ELSE ChainKeys(m, Bucket(m, map, lo)) \o LinkOrder(m, map, lo + 1, hi)

\* the keys of the table map in heap m, in that order
OrderOf(m, map) == LinkOrder(m, map, 0, map.capacity)

Without(seq, key) == SelectSeq(seq, LAMBDA k : k /= key)

\* the bucket index of every key of the caller in the table map
IndexOf(map) == [k \in OrderKeys |-> hashmap_hash_index(map, k)]

\* the keys of seq that lie in bucket i, in the order of seq; idx gives the
\* bucket index of a key
InBucket(seq, idx, i) == SelectSeq(seq, LAMBDA k : idx[k] = i)

\* the bucket indexes of the keys of seq do not decrease
Ascending(seq, idx) ==
    \A i \in 1..(Len(seq) - 1) : idx[seq[i]] <= idx[seq[i + 1]]

\* after is the visit order call has left, idx giving the bucket index of a
\* key in the table it has left, and kept the visit order before the call
\* without the key it removed: the buckets come in ascending order, and
\* every chain holds the keys of kept that lie in its bucket, in the order
\* of kept, with the new key of the call at the tail
OrderKept(kept, after, idx, call) ==
    /\ Ascending(after, idx)
    /\ \A i \in {idx[k] : k \in OrderKeys} :
           InBucket(after, idx, i)
               = InBucket(kept, idx, i)
                     \o (IF /\ call.op = "insert" /\ call.ret = 0
                            /\ idx[call.key] = i
                         THEN <<call.key>>
                         ELSE <<>>)

\* before and after are the orders of the keys before and after call
OrderStep(before, after, idx, call) ==
    /\ OrderKept(IF call.op = "remove" THEN Without(before, call.key)
                 ELSE before,
                 after, idx, call)
    /\ (call.op = "insert" /\ call.ret = 1) => after = before
    /\ call.op = "iterate" => VisitedKeys(call.context.calls) = before

\* C32: hashmap_iterate visits the buckets in ascending index order and the
\* entries of a bucket in link order, and the link order of a chain is the
\* order in which its keys were first inserted into it: a new key is linked
\* last in its bucket, an overwritten key keeps its place, a removed key
\* leaves the relative order of the others as it was, and a growth links
\* the keys into their new chains in the order in which they were linked
\* before.
C32_VisitOrder ==
    [][last'.op \in {"insert", "remove", "grow", "iterate"}
       => LET before == OrderOf(mem, maps["map"])
              after == OrderOf(mem', maps'["map"])
              idx == IndexOf(maps'["map"])
          IN  OrderStep(before, after, idx, last')]_vars

\* of three keys chained in one bucket the second was removed and the
\* first overwritten, and hashmap_iterate visited the other two in the
\* order of their insertion: 54, then 30
C32_Witness ==
    /\ last.op = "iterate"
    /\ maps["map"].capacity = HASHMAP_DEFAULT_CAPACITY
    /\ maps["map"].buckets_filled = 1
    /\ shadow["map"][14] = <<>>
    /\ last.context.calls = <<<<54, 2, 1>>, <<30, 1, 1>>>>

(***************************************************************************)
(* The removing loader (SpecFrame), after test_remove_half_even: it        *)
(* inserts keys of LoadOrder in the order of LoadOrder, each under the     *)
(* value that is its position, and at any time removes, with a non-NULL   *)
(* out, one of the two keys that share a bucket at capacity 8 or a key     *)
(* that has a bucket of its own; a removed key may be inserted again while *)
(* no later key is stored.                                                 *)
(***************************************************************************)
\* 0 and 8 share a bucket at capacity 8, 0 being linked first; 5 does not
\* share its bucket
FrameRemoved == {0, 8, 5}

FrameInsert(key) ==
    /\ \A k \in Stored("map") :
           Position(LoadOrder, k) <= Position(LoadOrder, key)
    /\ GrowthBounded("map", MaxCapacity)
    /\ InsertCall("map", key, Position(LoadOrder, key))

NextFrame ==
    \/ \E key \in Range(LoadOrder) : FrameInsert(key)
    \/ \E key \in FrameRemoved : RemoveCall("map", key, <<OutInit>>)

SpecFrame == Init /\ [][NextFrame]_vars

\* C33: insert(k, v) and remove(k) leave what hashmap_get yields for every
\* other key as it was, found flag and value, also when the insert triggers
\* a growth and when the other key shares the bucket of k.
C33_TouchOnlyKey ==
    [][last'.op \in {"insert", "remove"}
       => \A j \in Range(LoadOrder) \ {last'.key} :
              Get1("map", j) = Get("map", j)]_vars

\* the insert of key 7 found 7 of the 8 buckets occupied and triggered the
\* growth to 16; the keys 0 and 8, which shared a bucket, are found
C33_Witness ==
    /\ last.op = "insert" /\ last.key = 7 /\ last.ret = 0
    /\ last.cap = HASHMAP_DEFAULT_CAPACITY
    /\ maps["map"].capacity = 16
    /\ maps["map"].size = 9
    /\ Get("map", 0) = Found(1)
    /\ Get("map", 8) = Found(7)

\* ------------------------------------------------------------------
\* Output parameter of hashmap_get and hashmap_remove
\* ------------------------------------------------------------------

\* what the caller passes as out: NULL, or the address of a variable that
\* holds OutInit
Outs == {<<>>, <<OutInit>>}

\* found = hashmap_get(&t, key, out)
GetCall(t, key, out) ==
    /\ Running
    /\ LET r == hashmap_get(mem, maps[t], key, out)
       IN  last' = Call("get", t, key, 0, r.ret, r.out)
    /\ UNCHANGED <<mem, maps, shadow>>

NextOut ==
    \/ InitCall("map")
    \/ \E key \in MainKeys, value \in Values :
           GrowthBounded("map", HASHMAP_DEFAULT_CAPACITY)
           /\ InsertCall("map", key, value)
    \/ \E key \in MainKeys, out \in Outs : RemoveCall("map", key, out)
    \/ \E key \in MainKeys, out \in Outs : GetCall("map", key, out)

SpecOut == Init /\ [][NextOut]_vars

\* the call that the step made, had it been given out
Lookup(call, out) ==
    IF call.op = "get"
    THEN hashmap_get(mem, maps[call.t], call.key, out)
    ELSE LET r == hashmap_remove(mem, maps[call.t], call.key, out)
         IN  [ret |-> r.ret, out |-> r.out]

\* out after a call that returned ret on a table that held stored for the
\* key (<<>> when absent)
OutAfter(out, ret, stored) == IF ret = 1 /\ out /= <<>> THEN stored ELSE out

\* C34: hashmap_get and hashmap_remove store through out only when they
\* return 1 and out is not NULL, and then they store the value the table
\* held for the key; when they return 0, the key being absent or the table
\* never allocated, the variable out points to holds what it held before
\* the call
C34_OutDiscipline ==
    [][last'.op \in {"get", "remove"}
       => /\ \A out \in Outs :
                 LET r == Lookup(last', out)
                 IN  /\ r.ret = (IF shadow[last'.t][last'.key] = <<>>
                                 THEN 0 ELSE 1)
                     /\ r.out = OutAfter(out, r.ret,
                                         shadow[last'.t][last'.key])
          /\ \E out \in Outs :
                 /\ last'.ret = Lookup(last', out).ret
                 /\ last'.out = Lookup(last', out).out]_vars

C34_Witness ==
    /\ last.op = "get" /\ last.key = 13
    /\ last.ret = 0 /\ last.out = <<OutInit>>
    /\ Get("map", 5) = Found(2)
    /\ hashmap_hash_index(maps["map"], 5) = hashmap_hash_index(maps["map"], 13)

\* ------------------------------------------------------------------
\* The table after an allocation panic that the caller recovered from
\* ------------------------------------------------------------------

\* the step made hashmap_insert or hashmap_grow panic because the allocator
\* reported failure
AllocationPanic ==
    /\ ~mem.panic /\ mem'.panic /\ mem'.denied
    /\ last'.op \in {"insert", "grow"}

\* C35: when the allocator's failure makes hashmap_insert or hashmap_grow
\* panic, the table given to the call is as it was before the call: same
\* size, capacity, buckets_filled and iteration_callback, and the same
\* value found, or none, for every key.
C35_RecoveredState ==
    [][AllocationPanic
       => /\ maps'["map"].size = maps["map"].size
          /\ maps'["map"].capacity = maps["map"].capacity
          /\ maps'["map"].buckets_filled = maps["map"].buckets_filled
          /\ maps'["map"].iteration_callback = maps["map"].iteration_callback
          /\ \A key \in Range(LoadOrder) :
                 Get1("map", key) = Get("map", key)]_vars

\* ------------------------------------------------------------------
\* Every block is released exactly once
\* ------------------------------------------------------------------

\* the bucket arrays that table t holds
Arrays(t) == {maps[t].buckets} \ {NULL}

\* C36: under the caller that starts from the empty table and calls init,
\* insert, remove, grow, clear, iterate and free in any order, the live
\* bucket arrays are exactly the one the table holds and the live nodes
\* exactly the nodes of its chains - a block that left the table has been
\* released, and none that the table reaches has been - no release of a
\* block that is not live has happened, and after hashmap_free no block is
\* live.
C36_ReleasedExactlyOnce ==
    /\ ~mem.fault
    /\ DOMAIN mem.arr = Arrays("map")
    /\ DOMAIN mem.node = Nodes("map")
    /\ Nodes("map") \cap Arrays("map") = {}
    /\ last.op = "free" => Allocated(mem) = {}

\* a table that had grown to capacity 16 has been freed
C36_Witness ==
    /\ last.op = "free" /\ last.cap = 16 /\ ~last.again
    /\ Allocated(mem) = {}
    /\ maps["map"] = ZeroMap

\* C37: hashmap_insert leaves map.iteration_callback as it was, also when
\* it is the first insert on a never-allocated table and initializes it.
C37_InsertKeepsCallback ==
    [][last'.op = "insert"
       => maps'[last'.t].iteration_callback
              = maps[last'.t].iteration_callback]_vars

\* ------------------------------------------------------------------
\* The insert of a key the table holds
\* ------------------------------------------------------------------

\* the step was an insert of a key that the table held
Overwriting == last'.op = "insert" /\ Get(last'.t, last'.key).ret = 1

\* the step left size and the entries of every key but the one of the call
\* as they were, and stored the value of the call for that key
OnlyValueChanged ==
    /\ last'.ret = 1
    /\ maps'["map"].size = maps["map"].size
    /\ Get1("map", last'.key) = Found(last'.value)
    /\ \A j \in Range(LoadOrder) \ {last'.key} :
           Get1("map", j) = Get("map", j)

\* the step left the struct, the bucket array and every node's key and
\* link as they were
LayoutKept ==
    /\ maps' = maps
    /\ mem'.arr = mem.arr
    /\ DOMAIN mem'.node = DOMAIN mem.node
    /\ \A n \in DOMAIN mem.node :
           /\ mem'.node[n].key = mem.node[n].key
           /\ mem'.node[n].next = mem.node[n].next

\* C38 as stated: an insert of a key the table holds changes nothing but
\* the value stored for the key: capacity, the bucket array, buckets_filled,
\* size and every other entry are as before, in every reachable state.
C38_OverwriteChangesOnlyValue ==
    [][Overwriting => OnlyValueChanged /\ LayoutKept]_vars

\* C38 amended: an insert of a key the table holds returns 1, stores the
\* value for the key and leaves size and every other entry as they were;
\* when the table is not above the load factor at the call, the struct, the
\* bucket array and every node's key and link are as before; when it is,
\* the insert first grows the table, so that capacity and the bucket array
\* change (and buckets_filled may), as a hashmap_grow would change them.
C38_OverwriteFrame ==
    [][Overwriting
       => /\ OnlyValueChanged
          /\ IF AboveLoadFactor(maps["map"].buckets_filled,
                                maps["map"].capacity)
             THEN /\ maps'["map"] = hashmap_grow(mem, maps["map"]).map
                  /\ maps'["map"].capacity > maps["map"].capacity
                  /\ maps'["map"].buckets /= maps["map"].buckets
             ELSE LayoutKept]_vars

\* the insert of a key the table held, called at capacity 8 with seven
\* occupied buckets, replaced the value and made the table grow
C38_Witness ==
    /\ last.op = "insert" /\ last.ret = 1 /\ last.key = 6 /\ last.value = 2
    /\ last.cap = HASHMAP_DEFAULT_CAPACITY
    /\ maps["map"].capacity = 16 /\ maps["map"].size = 8
    /\ Get("map", 6) = Found(2) /\ Get("map", 8).ret = 1

\* ------------------------------------------------------------------
\* Well-formed chains
\* ------------------------------------------------------------------

\* following next from head reaches NULL through live nodes in at most
\* steps steps
RECURSIVE EndsWithin(_, _, _)
EndsWithin(m, head, steps) ==
    IF head = NULL THEN TRUE
    ELSE IF steps = 0 \/ head \notin DOMAIN m.node THEN FALSE
    ELSE EndsWithin(m, m.node[head].next, steps - 1)

\* C39: in every reachable state the chain of every bucket of every table
\* reaches the null link through live nodes in as many steps as the table
\* has entries or fewer (it is finite, has no cycle, and a traversal of it
\* ends before any loop counter could reach its limit), no node belongs to
\* the chains of two buckets or of two tables, and no assertion has
\* failed.
C39_WellFormedChains ==
    /\ ~mem.fault
    /\ \A t \in Tables :
           maps[t].buckets /= NULL
           => /\ \A i \in BucketIndexes(t) :
                     EndsWithin(mem, Bucket(mem, maps[t], i), maps[t].size)
              /\ \A i \in BucketIndexes(t), j \in BucketIndexes(t) :
                     i /= j => BucketNodes(t, i) \cap BucketNodes(t, j) = {}
    /\ Nodes("map") \cap Nodes("dest") = {}

\* both tables hold the chain of 5 and 13, and the copy has had an insert
\* or a removal since it was made
C39_Witness ==
    /\ maps["map"].buckets /= NULL /\ maps["dest"].buckets /= NULL
    /\ \E t \in Tables :
           /\ Cardinality(BucketNodes(t, 0)) = 2
           /\ Cardinality(BucketNodes(Other(t), 0)) = 2
           /\ last.t = t /\ last.op \in {"insert", "remove"}

(***************************************************************************)
(* The caller of the NDEBUG build (SpecRelease): it inserts the keys of    *)
(* LoadOrder in order into a table that starts empty, overwrites the key   *)
(* inserted last, and calls hashmap_grow at any time.                      *)
(***************************************************************************)
ReleaseInsert(key, value) ==
    /\ Running
    /\ \A k \in Stored("map") :
           Position(LoadOrder, k) <= Position(LoadOrder, key)
    /\ InsertReturned("map", key, value,
                      hashmap_insert_ndebug(mem, maps["map"], key, value))
    /\ shadow' = [shadow EXCEPT !["map"][key] = <<value>>]

ReleaseGrow ==
    /\ Running
    /\ maps["map"].capacity <= MaxCapacity
    /\ Returned("map", hashmap_grow_ndebug(mem, maps["map"]))
    /\ last' = Call("grow", "map", 0, 0, 0, <<>>)
    /\ UNCHANGED shadow

NextRelease ==
    \/ InitCall("map")
    \/ \E key \in Range(LoadOrder), value \in Values :
           ReleaseInsert(key, value)
    \/ ReleaseGrow
    \/ FreeCall("map")

SpecRelease == Init /\ [][NextRelease]_vars

\* C40: in the build with NDEBUG defined a hashmap_grow of a table that
\* holds entries leaves it as the build with assertions would: with a
\* greater capacity, a fresh bucket array, and every entry in it.
C40_GrowthWithoutAssertions ==
    [][(last'.op = "grow" /\ maps["map"].size > 0)
       => /\ maps'["map"] = hashmap_grow(mem, maps["map"]).map
          /\ maps'["map"].capacity > maps["map"].capacity
          /\ \A key \in Range(LoadOrder) :
                 Get1("map", key) = Get("map", key)]_vars

====
